---- MODULE Spec2Model ----
(***************************************************************************)
(* FileMonitor (zeetee1235/FileMonitor): the inotify watch registry, the   *)
(* event dispatcher and the checksum change-detection cache of             *)
(* src/src/monitor.c (modes basic, advanced, enhanced) and of              *)
(* src/src/advanced_monitor.c, together with a small model of the kernel   *)
(* side they talk to (directory tree, inotify watch table, event queue).   *)
(* Further specifications run the path filter on names and rule lists,     *)
(* the handlers on single notifications, startup on a faulty tree, and the *)
(* event loop on a queue that has overflowed.  The log file with its        *)
(* rotation and generations (also of src/src/enhanced_monitor.c) and the   *)
(* threads, mutexes and signal handlers of the two programs have           *)
(* specifications of their own, as have startup on a tree with a symbolic *)
(* link and the dispatcher of a monitor whose log lies under the root.     *)
(*                                                                         *)
(* C strings are sequences of one-character strings; a path is built the   *)
(* way snprintf("%s/%s") builds it.  MAX_PATH_LEN truncation is out of     *)
(* reach of the short paths used here.                                     *)
(***************************************************************************)
EXTENDS Integers, Sequences, FiniteSets, TLC

VARIABLES
    prog,               \* which program runs: "monitor" or "advanced_monitor"
    mode,               \* monitor.c: "basic" | "advanced" | "enhanced"
    pc,                 \* "start" (before the initial install) | "running" | "exited"
    recursive_mode,
    file_extensions,    \* sequence of extensions, extension_count = Len
    enable_checksum,
    patterns,           \* advanced_monitor.c: sequence of [pattern, action] rules
    max_file_size_mb,   \* advanced_monitor.c
    watch_descriptors,  \* basic/advanced mode arrays (slots 1..watch_count written)
    watch_paths,
    watch_count,
    watch_manager,      \* enhanced mode: [entries, capacity, count]
    stats,              \* the counters of monitor_stats_t that the handlers touch
    file_hashes,        \* advanced mode fingerprint cache (slots 1..hash_count)
    hash_count,
    hash_capacity,
    log_out,            \* the lines log_event was called with during the last step
    \* ---- the environment: file system and kernel inotify instance
    fs_dirs,            \* dynamic directories under the root: name -> inode (0: absent)
    nfill,              \* number of further, static directories f1..fN under the root
    files,              \* regular files under the root: name -> [readable, bytes]
    faults,             \* what the root path names, the directories whose mode
                        \* denies reading, whether opendir can get a descriptor
    k_watch,            \* kernel watch table: inode -> wd (0: not watched)
    k_next_wd,          \* next watch descriptor the kernel hands out
    k_nwatches,         \* number of live kernel watches
    k_max_watches,      \* fs.inotify.max_user_watches
    k_next_ino,         \* next inode number for mkdir
    queue,              \* the inotify event queue
    ops,                \* number of file-system operations performed so far
    \* ---- history, read only by the properties
    issued,             \* <<wd, path>> of every register call that succeeded
    seen,               \* per file: the last confirm_change call on it, whether
                        \* the file's bytes were changed since, and the bytes it
                        \* held when it was created or last looked at
    reg_ok,             \* number of register calls that succeeded
    asked,              \* the last should_monitor_file call: its argument and result
    reported,           \* the paths a Created line has been logged for
    last,               \* what the last step did
    \* ---- the log and statistics files, the threads and the signals
    enable_compression,
    log_file,           \* the FILE *: "null" | "open" | "closed" (fclose'd, not reset)
    disk,               \* the log, its generations and the statistics document
    io,                 \* which of rename, fopen and gzopen fail for this run, and
                        \* what a write on the closed stream ends in
    running,            \* the shutdown flag of monitor.c
    threads,            \* per thread: the instructions it still has to execute
    mutexes,            \* per mutex: the thread that holds it, or "none"
    hist                \* history of the log and of the threads, read only by
                        \* the properties

vars == <<prog, mode, pc, recursive_mode, file_extensions, enable_checksum,
          patterns, max_file_size_mb,
          watch_descriptors, watch_paths, watch_count, watch_manager, stats,
          file_hashes, hash_count, hash_capacity, log_out,
          fs_dirs, nfill, files, faults, k_watch, k_next_wd, k_nwatches, k_max_watches,
          k_next_ino, queue, ops, issued, seen, reg_ok, asked, reported, last,
          enable_compression, log_file, disk, io, running, threads, mutexes, hist>>

(***************************************************************************)
(* Bounds of the model.                                                    *)
(***************************************************************************)
MaxOps == 3             \* file-system operations per run
MaxQueue == 4           \* events waiting in the inotify queue
FillerDirs == 1023      \* static directories of the big tree (with the root: 1024)
MaxNest == 3            \* nested calls of log_event the stack has room for
MaxRotations == 12      \* rotations per run
MaxLines == 4           \* calls of log_event between two rotations
MaxEvents == 2          \* events the main thread handles while the threads are watched
MaxTicks == 1           \* iterations of the timer thread
MaxSignals == 1         \* signals delivered
MaxCount == 3           \* where the event counters stop when the log is watched
MaxLinkHops == 4        \* symbolic links the kernel follows in one path (Linux: 40)
LineBytes == 64         \* bytes of one log line

(***************************************************************************)
(* Program constants.                                                      *)
(***************************************************************************)
INITIAL_WATCH_CAPACITY == 1024
WATCH_GROWTH_FACTOR == 2
MAX_WATCHES == 1024
BASIC_WATCH_LIMIT == 1024
HASH_INITIAL_MONITOR == 100
HASH_INITIAL_ADVANCED == 1000

(***************************************************************************)
(* Strings.                                                                *)
(***************************************************************************)
RootPath == <<"r">>
DirNames == {<<"a">>, <<"b">>}
FileNames == {<<"n", ".", "t">>, <<"m">>}
NoName == <<>>

DigitChars == <<"0", "1", "2", "3", "4", "5", "6", "7", "8", "9">>

RECURSIVE Digits(_)
Digits(k) == IF k < 10 THEN <<DigitChars[k + 1]>>
             ELSE Append(Digits(k \div 10), DigitChars[(k % 10) + 1])

DigitValue(c) == CHOOSE d \in 0..9 : DigitChars[d + 1] = c

IsDigit(c) == \E d \in 0..9 : DigitChars[d + 1] = c

RECURSIVE ParseNat(_)
ParseNat(s) == IF s = <<>> THEN 0
               ELSE 10 * ParseNat(SubSeq(s, 1, Len(s) - 1)) + DigitValue(s[Len(s)])

FillerName(k) == <<"f">> \o Digits(k)

\* snprintf(buf, size, "%s/%s", dir, name)
JoinPath(dir, name) == dir \o <<"/">> \o name

\* strrchr(s, c): index of the last occurrence of c, 0 when there is none
MaxOrZero(hits) == IF hits = {} THEN 0 ELSE CHOOSE i \in hits : \A j \in hits : j <= i

MinOrZero(hits) == IF hits = {} THEN 0 ELSE CHOOSE i \in hits : \A j \in hits : i <= j

StrRChr(s, c) == MaxOrZero({i \in 1..Len(s) : s[i] = c})

(***************************************************************************)
(* The file system and the kernel's inotify instance, as the program sees  *)
(* them through stat(2), readdir(3) and inotify_add_watch(2).              *)
(***************************************************************************)
RootIno == 1

DirOrder == << <<"a">>, <<"b">> >>
FileOrder == << <<"n", ".", "t">>, <<"m">> >>

\* the programs' own files (LOG_FILE, CONFIG_FILE, STATS_FILE of advanced_monitor.c)
ADV_LOG_FILE == <<"a", "d", "v", "a", "n", "c", "e", "d", "_", "m", "o", "n", "i", "t", "o", "r", ".", "l", "o", "g">>
ADV_CONFIG_FILE == <<"a", "d", "v", "a", "n", "c", "e", "d", "_", "m", "o", "n", "i", "t", "o", "r", ".", "c", "o", "n", "f">>
ADV_STATS_FILE == <<"m", "o", "n", "i", "t", "o", "r", "_", "s", "t", "a", "t", "s", ".", "j", "s", "o", "n">>
DOT_TMP == <<".", "t", "m", "p">>
DOT_SWP == <<".", "s", "w", "p">>

\* LOG_FILE, CONFIG_FILE, STATS_FILE of monitor.c
MON_LOG_FILE == <<"m", "o", "n", "i", "t", "o", "r", ".", "l", "o", "g">>
MON_CONFIG_FILE == <<"m", "o", "n", "i", "t", "o", "r", ".", "c", "o", "n", "f">>
MON_STATS_FILE == <<"m", "o", "n", "i", "t", "o", "r", "_", "s", "t", "a", "t", "s", ".", "j", "s", "o", "n">>

\* strstr(s, t) != NULL
StrStr(s, t) == \E i \in 1..(Len(s) - Len(t) + 1) : SubSeq(s, i, i + Len(t) - 1) = t

IsFillerNumber(name, k) == k >= 1 /\ k <= nfill /\ FillerName(k) = name

IsFillerName(name) ==
    /\ Len(name) >= 2
    /\ name[1] = "f"
    /\ \A i \in 2..Len(name) : IsDigit(name[i])
    /\ IsFillerNumber(name, ParseNat(SubSeq(name, 2, Len(name))))

\* the part of a path under the root directory, NoName when it is not under it
UnderRoot(path) ==
    IF /\ Len(path) > Len(RootPath) + 1
       /\ SubSeq(path, 1, Len(RootPath) + 1) = RootPath \o <<"/">>
    THEN SubSeq(path, Len(RootPath) + 2, Len(path))
    ELSE NoName

StatName(rest) ==
    IF rest \in DirNames /\ fs_dirs[rest] # 0
        THEN [kind |-> "dir", ino |-> fs_dirs[rest]]
    ELSE IF rest \in FileNames /\ files[rest].exists
        THEN [kind |-> "file", ino |-> 0]
    ELSE IF IsFillerName(rest)
        THEN [kind |-> "dir", ino |-> 0]
    ELSE [kind |-> "none", ino |-> 0]

\* stat(path): what the path names now.  A static directory has inode 0
\* here: the kernel table below does not track it, it is watched at most once.
StatReal(path) ==
    IF faults.root # "dir" THEN [kind |-> IF path = RootPath THEN faults.root ELSE "none",
                                 ino |-> 0]
    ELSE IF path = RootPath THEN [kind |-> "dir", ino |-> RootIno]
    ELSE StatName(UnderRoot(path))

\* the kernel gives up a path resolution after MaxLinkHops symbolic links (ELOOP)

\* the one symbolic link of the tree, if any: a name under the root
LinkPath == JoinPath(RootPath, faults.link.name)

HasPrefix(path, pre) ==
    /\ Len(path) >= Len(pre)
    /\ SubSeq(path, 1, Len(pre)) = pre
    /\ Len(path) = Len(pre) \/ path[Len(pre) + 1] = "/"

\* path resolution: every symbolic link on the way is replaced by its target;
\* NoName stands for ELOOP
RECURSIVE FollowLinks(_, _)
FollowLinks(path, hops) ==
    IF faults.link.name = NoName THEN path
    ELSE IF ~HasPrefix(path, LinkPath) THEN path
    ELSE IF hops >= MaxLinkHops THEN NoName
    ELSE FollowLinks(faults.link.target \o SubSeq(path, Len(LinkPath) + 1, Len(path)),
                     hops + 1)

\* stat(path), which follows symbolic links
StatPath(path) == StatReal(FollowLinks(path, 0))

\* readdir(path) without "." and "..": the names under path, in directory order
Children(path) ==
    IF FollowLinks(path, 0) = RootPath
    THEN SelectSeq(DirOrder, LAMBDA n : fs_dirs[n] # 0)
         \o SelectSeq(FileOrder, LAMBDA n : files[n].exists)
         \o [i \in 1..nfill |-> FillerName(i)]
         \o (IF faults.link.name = NoName THEN <<>> ELSE <<faults.link.name>>)
    ELSE <<>>

\* the kernel's part of inotify_add_watch once the path is resolved to s
KernelAddWatch(K, s) ==
    IF s.kind = "none" THEN [k |-> K, wd |-> -1]
    ELSE IF s.ino # 0 /\ K.watch[s.ino] # 0 THEN [k |-> K, wd |-> K.watch[s.ino]]
    ELSE IF K.nwatches >= k_max_watches THEN [k |-> K, wd |-> -1]
    ELSE [k |-> [watch |-> IF s.ino # 0
                              THEN [K.watch EXCEPT ![s.ino] = K.next_wd]
                              ELSE K.watch,
                 next_wd |-> K.next_wd + 1,
                 nwatches |-> K.nwatches + 1],
          wd |-> K.next_wd]

\* inotify_add_watch(fd, path, mask) on kernel state K = [watch, next_wd,
\* nwatches]: an inode that is already watched gives back its descriptor; a
\* new watch needs room under max_user_watches; descriptors are never reused.
\* a directory the caller may not read gives EACCES.
inotify_add_watch(K, path) ==
    IF path \in faults.denied THEN [k |-> K, wd |-> -1]
    ELSE KernelAddWatch(K, StatPath(path))

(***************************************************************************)
(* The event flags of <sys/inotify.h> that the programs test.              *)
(***************************************************************************)
IN_CLOSE == {"IN_CLOSE_WRITE", "IN_CLOSE_NOWRITE"}

Event(wd, mask, name) == [wd |-> wd, mask |-> mask, name |-> name]

(***************************************************************************)
(* The program.  A handler runs on a record R of everything it can change  *)
(* and returns the changed record.  An operator named f_k continues the    *)
(* function f with the value of a call f made.                             *)
(***************************************************************************)
Line(tag, path) == [tag |-> tag, path |-> path]

\* a[i] = v for a C array whose slots 1..Len(a) have been written so far
Store(a, i, v) == IF i = Len(a) + 1 THEN Append(a, v)
                  ELSE IF i >= 1 /\ i <= Len(a) THEN [a EXCEPT ![i] = v]
                  ELSE a

\* log_event(message); advanced_monitor.c also counts the line
log_event(R, line) ==
    [R EXCEPT !.out = Append(@, line),
              !.st.events_processed = IF prog = "advanced_monitor" THEN @ + 1 ELSE @,
              !.steps = IF prog = "advanced_monitor" THEN @ \o <<"log", "count">>
                        ELSE Append(@, "log")]

ExtensionOf(filename, dot) == SubSeq(filename, dot + 1, Len(filename))

\* a filter that lets a name without '.' through
should_monitor_file_k_dotless(filename, dot) ==
    IF dot = 0 THEN TRUE
    ELSE \E i \in 1..Len(file_extensions) :
            ExtensionOf(filename, dot) = file_extensions[i]

should_monitor_file_k(filename, dot) ==
    IF dot = 0 THEN FALSE
    ELSE \E i \in 1..Len(file_extensions) :
            ExtensionOf(filename, dot) = file_extensions[i]

should_monitor_file(filename) ==
    IF Len(file_extensions) = 0 THEN TRUE
    ELSE should_monitor_file_k(filename, StrRChr(filename, "."))

\* a registration that counts the slot before it knows the kernel's answer
add_watch_basic_k_count_first(R, path, a) ==
    IF a.wd = -1
    THEN [r |-> log_event([R EXCEPT !.wcount = @ + 1],
                          Line("[ERROR] Failed to add watch", path)),
          ret |-> -1]
    ELSE [r |-> log_event(
                  [R EXCEPT !.k = a.k,
                            !.wdesc = Store(@, R.wcount + 1, a.wd),
                            !.wpaths = Store(@, R.wcount + 1, path),
                            !.wcount = @ + 1],
                  Line("[WATCH] Added", path)),
          ret |-> a.wd]

add_watch_basic_k(R, path, a) ==
    IF a.wd = -1
    THEN [r |-> log_event(R, Line("[ERROR] Failed to add watch", path)), ret |-> -1]
    ELSE [r |-> log_event(
                  [R EXCEPT !.k = a.k,
                            !.wdesc = Store(@, R.wcount + 1, a.wd),
                            !.wpaths = Store(@, R.wcount + 1, path),
                            !.wcount = @ + 1],
                  Line("[WATCH] Added", path)),
          ret |-> a.wd]

add_watch_basic(R, path) ==
    IF R.wcount >= BASIC_WATCH_LIMIT
    THEN [r |-> log_event(R, Line("[ERROR] Maximum watch limit reached (basic mode)", NoName)),
          ret |-> -1]
    ELSE add_watch_basic_k(R, path, inotify_add_watch(R.k, path))

add_single_watch_k(R, path, a) ==
    IF a.wd = -1
    THEN [r |-> log_event(R, Line("[ERROR] Failed to add watch", path)), ret |-> -1]
    ELSE [r |-> [log_event(
                   [R EXCEPT !.k = a.k,
                             !.wdesc = Store(@, R.wcount + 1, a.wd),
                             !.wpaths = Store(@, R.wcount + 1, path),
                             !.wcount = @ + 1],
                   Line("[WATCH] Watch added", path))
                 EXCEPT !.st.files_monitored = @ + 1],
          ret |-> a.wd]

add_single_watch(R, path) ==
    IF R.wcount >= MAX_WATCHES
    THEN [r |-> log_event(R, Line("[WARN] Maximum number of watches reached.", NoName)),
          ret |-> -1]
    ELSE add_single_watch_k(R, path, inotify_add_watch(R.k, path))

\* a registration that gives up the whole registry when the kernel refuses
add_watch_dynamic_k_forget(R, path, a) ==
    IF a.wd = -1
    THEN [r |-> log_event([R EXCEPT !.wm.count = 0],
                          Line("[ERROR] Failed to add watch", path)),
          ret |-> -1]
    ELSE [r |-> log_event(
                  [R EXCEPT !.k = a.k,
                            !.wm.entries = Store(@, R.wm.count + 1,
                                [wd |-> a.wd, path |-> path, event_count |-> 0]),
                            !.wm.count = @ + 1],
                  Line("[WATCH] Added", path)),
          ret |-> a.wd]

add_watch_dynamic_k(R, path, a) ==
    IF a.wd = -1
    THEN [r |-> log_event(R, Line("[ERROR] Failed to add watch", path)), ret |-> -1]
    ELSE [r |-> log_event(
                  [R EXCEPT !.k = a.k,
                            !.wm.entries = Store(@, R.wm.count + 1,
                                [wd |-> a.wd, path |-> path, event_count |-> 0]),
                            !.wm.count = @ + 1],
                  Line("[WATCH] Added", path)),
          ret |-> a.wd]

\* a growth that is not counted
expand_watch_manager_uncounted(R) ==
    log_event([R EXCEPT !.wm.capacity = R.wm.capacity * WATCH_GROWTH_FACTOR],
              Line("[INFO] Watch manager expanded", NoName))

\* the growth branch: realloc to capacity * WATCH_GROWTH_FACTOR
expand_watch_manager(R) ==
    log_event([R EXCEPT !.wm.capacity = R.wm.capacity * WATCH_GROWTH_FACTOR,
                        !.st.memory_reallocations = @ + 1],
              Line("[INFO] Watch manager expanded", NoName))

add_watch_dynamic_add(R, path) == add_watch_dynamic_k(R, path, inotify_add_watch(R.k, path))

\* a registry that stops at its capacity instead of growing
add_watch_dynamic_fixed(R, path, alloc_ok) ==
    IF R.wm.count >= R.wm.capacity
    THEN [r |-> [log_event(R, Line("[ERROR] Failed to expand watch manager capacity",
                                   NoName))
                   EXCEPT !.st.watch_limit_hits = @ + 1],
          ret |-> -1]
    ELSE add_watch_dynamic_add(R, path)

\* alloc_ok: whether realloc() can satisfy a request during this call
add_watch_dynamic(R, path, alloc_ok) ==
    IF R.wm.count >= R.wm.capacity
    THEN IF ~alloc_ok
         THEN [r |-> [log_event(R, Line("[ERROR] Failed to expand watch manager capacity",
                                        NoName))
                        EXCEPT !.st.watch_limit_hits = @ + 1],
               ret |-> -1]
         ELSE add_watch_dynamic_add(expand_watch_manager(R), path)
    ELSE add_watch_dynamic_add(R, path)

\* the history of the register calls that succeeded
RegisterNote(a, path) ==
    IF a.ret = -1 THEN a
    ELSE [r |-> [a.r EXCEPT !.issued = @ \cup {<<a.ret, path>>}, !.reg_ok = @ + 1],
          ret |-> a.ret]

\* register(path) of the running program
Register(R, path, alloc_ok) ==
    RegisterNote(IF prog = "advanced_monitor" THEN add_single_watch(R, path)
                 ELSE IF mode = "enhanced" THEN add_watch_dynamic(R, path, alloc_ok)
                 ELSE add_watch_basic(R, path),
                 path)

\* find_watch_by_wd(wd): index of the first entry with that descriptor, 0 for NULL
find_watch_by_wd(wm, wd) ==
    MinOrZero({i \in 1..wm.count : i <= Len(wm.entries) /\ wm.entries[i].wd = wd})

\* the scan of watch_descriptors[] in main's event loop
find_watch_path(wdesc, wcount, wd) ==
    MinOrZero({i \in 1..wcount : i <= Len(wdesc) /\ wdesc[i] = wd})

\* the state the readdir loop has left behind: the one element of a set that
\* holds the result of the later iterations run on the result of the earlier
Finished(results) == CHOOSE done \in results : TRUE

\* add_watch_recursive_basic / add_watch_recursive_enhanced / add_watch_recursive:
\* the three differ only in the register function they call
RECURSIVE add_watch_recursive(_, _, _)
RECURSIVE WalkChildren(_, _, _, _, _, _)

\* an installation that reports success whatever the registration returned
add_watch_recursive_k_lenient(a, path, alloc_ok) ==
    IF a.ret = -1 \/ ~recursive_mode THEN [r |-> a.r, ret |-> 0]
    ELSE IF ~faults.opendir_ok
    THEN [r |-> log_event(a.r, Line(IF prog = "advanced_monitor"
                                    THEN "[ERROR] Failed to open directory"
                                    ELSE "[ERROR] Cannot open directory", path)),
          ret |-> -1]
    ELSE [r |-> WalkChildren(a.r, path, Children(path), 1, Len(Children(path)), alloc_ok),
          ret |-> 0]

add_watch_recursive_k(a, path, alloc_ok) ==
    IF a.ret = -1 THEN [r |-> a.r, ret |-> -1]
    ELSE IF ~recursive_mode THEN [r |-> a.r, ret |-> 0]
    ELSE IF ~faults.opendir_ok
    THEN [r |-> log_event(a.r, Line(IF prog = "advanced_monitor"
                                    THEN "[ERROR] Failed to open directory"
                                    ELSE "[ERROR] Cannot open directory", path)),
          ret |-> -1]
    ELSE [r |-> WalkChildren(a.r, path, Children(path), 1, Len(Children(path)), alloc_ok),
          ret |-> 0]

add_watch_recursive(R, path, alloc_ok) ==
    IF StatPath(path).kind = "none"
    THEN [r |-> log_event(R, Line(IF prog = "advanced_monitor"
                                  THEN "[ERROR] Failed to check path status"
                                  ELSE "[ERROR] Cannot stat path", path)),
          ret |-> -1]
    ELSE IF StatPath(path).kind # "dir"
    THEN [r |-> log_event(R, Line(IF prog = "advanced_monitor"
                                  THEN "[ERROR] Specified path is not a directory."
                                  ELSE "[ERROR] Path is not a directory", NoName)),
          ret |-> -1]
    ELSE add_watch_recursive_k(Register(R, path, alloc_ok), path, alloc_ok)

\* the readdir loop over kids[lo..hi], in order; a child's result is ignored
WalkChildren(R, path, kids, lo, hi, alloc_ok) ==
    IF lo > hi THEN R
    ELSE IF lo = hi
    THEN IF StatPath(JoinPath(path, kids[lo])).kind = "dir"
         THEN add_watch_recursive(R, JoinPath(path, kids[lo]), alloc_ok).r
         ELSE R
    ELSE Finished({WalkChildren(first, path, kids, ((lo + hi) \div 2) + 1, hi, alloc_ok) :
                     first \in {WalkChildren(R, path, kids, lo, (lo + hi) \div 2, alloc_ok)}})

(***************************************************************************)
(* The change-detection cache.                                             *)
(***************************************************************************)
\* SHA-256 of the bytes, as a number: a fold that keeps different short byte
\* strings apart (collisions of the real digest are not modelled)
RECURSIVE SHA256(_)
SHA256(bytes) == IF bytes = <<>> THEN 7
                 ELSE (SHA256(SubSeq(bytes, 1, Len(bytes) - 1)) * 31
                        + bytes[Len(bytes)] + 1) % 65521

\* the regular file under the root that a path names, or NoName
FileOf(path) == IF UnderRoot(path) \in FileNames THEN UnderRoot(path) ELSE NoName

\* fopen(path, "rb") succeeds
CanOpen(path) ==
    \/ StatPath(path).kind = "dir"
    \/ /\ StatPath(path).kind = "file"
       /\ files[FileOf(path)].readable

\* st_size after a successful stat, 0 for a directory here
SizeOf(path) == IF StatPath(path).kind = "file" THEN Len(files[FileOf(path)].bytes) ELSE 0

\* calculate_file_hash(filepath): the digest, or -1 for NULL; fread on a
\* directory delivers no bytes
calculate_file_hash(filepath) ==
    IF ~CanOpen(filepath) THEN -1
    ELSE IF StatPath(filepath).kind = "file" THEN SHA256(files[FileOf(filepath)].bytes)
    ELSE SHA256(<<>>)

\* a scan that never finds the path
find_hash_never(fh, hc, filepath) == 0

\* index of the first cache entry for filepath, 0 when there is none
find_hash(fh, hc, filepath) ==
    MinOrZero({i \in 1..hc : i <= Len(fh) /\ fh[i].filepath = filepath})

\* a cache whose array never grows
GrownCapacity_stuck(hc, hcap, initial) == hcap

\* the capacity after the growth test of the insert branch
GrownCapacity(hc, hcap, initial) ==
    IF hc >= hcap THEN (IF hcap = 0 THEN initial ELSE hcap * 2) ELSE hcap

\* a cache that treats a file it cannot open as unchanged
check_file_changed_k_fail_closed(R, filepath, new_hash, i) ==
    IF new_hash = -1 THEN [r |-> R, ret |-> FALSE]
    ELSE IF i # 0
    THEN IF R.fh[i].hash # new_hash
         THEN [r |-> [R EXCEPT !.fh[i].hash = new_hash], ret |-> TRUE]
         ELSE [r |-> R, ret |-> FALSE]
    ELSE [r |-> [R EXCEPT !.hcap = GrownCapacity(R.hc, R.hcap, HASH_INITIAL_MONITOR),
                          !.fh = Store(@, R.hc + 1,
                                       [filepath |-> filepath, hash |-> new_hash,
                                        file_size |-> SizeOf(filepath)]),
                          !.hc = @ + 1],
          ret |-> TRUE]

\* monitor.c, after the hash is computed and the scan has stopped at i
check_file_changed_k(R, filepath, new_hash, i) ==
    IF new_hash = -1 THEN [r |-> R, ret |-> TRUE]
    ELSE IF i # 0
    THEN IF R.fh[i].hash # new_hash
         THEN [r |-> [R EXCEPT !.fh[i].hash = new_hash], ret |-> TRUE]
         ELSE [r |-> R, ret |-> FALSE]
    ELSE [r |-> [R EXCEPT !.hcap = GrownCapacity(R.hc, R.hcap, HASH_INITIAL_MONITOR),
                          !.fh = Store(@, R.hc + 1,
                                       [filepath |-> filepath, hash |-> new_hash,
                                        file_size |-> SizeOf(filepath)]),
                          !.hc = @ + 1],
          ret |-> TRUE]

check_file_changed(R, filepath) ==
    IF ~enable_checksum THEN [r |-> R, ret |-> TRUE]
    ELSE check_file_changed_k(R, filepath, calculate_file_hash(filepath),
                              find_hash(R.fh, R.hc, filepath))

\* a cache that reports a mismatch and keeps the old digest
has_file_changed_k_keep_digest(R, filepath, new_hash, i) ==
    IF i # 0
    THEN IF new_hash = -1 THEN [r |-> R, ret |-> TRUE]
         ELSE [r |-> R, ret |-> R.fh[i].hash # new_hash]
    ELSE IF new_hash = -1
    THEN [r |-> [R EXCEPT !.hcap = GrownCapacity(R.hc, R.hcap, HASH_INITIAL_ADVANCED)],
          ret |-> TRUE]
    ELSE [r |-> [R EXCEPT !.hcap = GrownCapacity(R.hc, R.hcap, HASH_INITIAL_ADVANCED),
                          !.fh = Store(@, R.hc + 1,
                                       [filepath |-> filepath, hash |-> new_hash,
                                        file_size |-> SizeOf(filepath)]),
                          !.hc = @ + 1],
          ret |-> TRUE]

\* advanced_monitor.c, after the scan has stopped at i
has_file_changed_k(R, filepath, new_hash, i) ==
    IF i # 0
    THEN IF new_hash = -1 THEN [r |-> R, ret |-> TRUE]
         ELSE IF R.fh[i].hash # new_hash
         THEN [r |-> [R EXCEPT !.fh[i].hash = new_hash,
                               !.fh[i].file_size = SizeOf(filepath)],
               ret |-> TRUE]
         ELSE [r |-> R, ret |-> FALSE]
    ELSE IF new_hash = -1
    THEN [r |-> [R EXCEPT !.hcap = GrownCapacity(R.hc, R.hcap, HASH_INITIAL_ADVANCED)],
          ret |-> TRUE]
    ELSE [r |-> [R EXCEPT !.hcap = GrownCapacity(R.hc, R.hcap, HASH_INITIAL_ADVANCED),
                          !.fh = Store(@, R.hc + 1,
                                       [filepath |-> filepath, hash |-> new_hash,
                                        file_size |-> SizeOf(filepath)]),
                          !.hc = @ + 1],
          ret |-> TRUE]

has_file_changed(R, filepath) ==
    IF ~enable_checksum THEN [r |-> R, ret |-> TRUE]
    ELSE has_file_changed_k(R, filepath, calculate_file_hash(filepath),
                            find_hash(R.fh, R.hc, filepath))

(***************************************************************************)
(* The path filter of advanced_monitor.c.                                  *)
(***************************************************************************)
\* regexec() of a pattern without metacharacters: an unanchored search
Regexec(pattern, filename) == StrStr(filename, pattern)

\* the loop of match_patterns from rule i on; actions 0 exclude, 1 include, 2 alert
RECURSIVE match_from(_, _, _)
match_from(R, filename, i) ==
    IF i > Len(patterns) THEN [r |-> R, ret |-> TRUE]
    ELSE IF Regexec(patterns[i].pattern, filename)
    THEN IF patterns[i].action = 0 THEN [r |-> R, ret |-> FALSE]
         ELSE IF patterns[i].action = 1 THEN [r |-> R, ret |-> TRUE]
         ELSE IF patterns[i].action = 2
         THEN [r |-> log_event(R, Line("ALERT: Pattern matched", filename)), ret |-> TRUE]
         ELSE match_from(R, filename, i + 1)
    ELSE match_from(R, filename, i + 1)

match_patterns(R, filename) ==
    IF Len(patterns) = 0 THEN [r |-> R, ret |-> TRUE]
    ELSE match_from(R, filename, 1)

should_monitor_file_adv_k(m, filename) ==
    IF ~m.ret THEN [r |-> m.r, ret |-> FALSE]
    ELSE [r |-> m.r, ret |-> should_monitor_file(filename)]

\* should_monitor_file of advanced_monitor.c: the pattern rules, then the extensions
should_monitor_file_adv(R, filename) ==
    should_monitor_file_adv_k(match_patterns(R, filename), filename)

\* should_monitor_file(filename) of the running program
should_monitor(R, filename) ==
    IF prog = "advanced_monitor" THEN should_monitor_file_adv(R, filename)
    ELSE [r |-> R, ret |-> should_monitor_file(filename)]

(***************************************************************************)
(* The event handlers.                                                     *)
(***************************************************************************)
LogIf(R, cond, line) == IF cond THEN log_event(R, line) ELSE R

\* a Created branch that never installs a watch
OnCreate_log_only(R, mask, full_path, alloc_ok) ==
    LogIf(R, "IN_CREATE" \in mask, Line("Created", full_path))

\* the Created branch shared by all handlers
OnCreate(R, mask, full_path, alloc_ok) ==
    IF "IN_CREATE" \in mask
    THEN IF "IN_ISDIR" \in mask /\ recursive_mode
         THEN add_watch_recursive(log_event(R, Line("Created", full_path)),
                                  full_path, alloc_ok).r
         ELSE log_event(R, Line("Created", full_path))
    ELSE R

\* the flag tests after Modified in monitor.c
TailFlags(R, mask, full_path) ==
    LogIf(LogIf(LogIf(LogIf(R,
        "IN_MOVED_FROM" \in mask, Line("Moved from", full_path)),
        "IN_MOVED_TO" \in mask, Line("Moved to", full_path)),
        "IN_OPEN" \in mask, Line("Opened", full_path)),
        mask \cap IN_CLOSE # {}, Line("Closed", full_path))

\* the flag tests of handle_event_basic and handle_event_enhanced
PlainFlags(R, event, full_path, alloc_ok) ==
    TailFlags(LogIf(LogIf(OnCreate(R, event.mask, full_path, alloc_ok),
                          "IN_DELETE" \in event.mask, Line("Deleted", full_path)),
                    "IN_MODIFY" \in event.mask, Line("Modified", full_path)),
              event.mask, full_path)

\* stats.total_events++
CountEvent(R) == [R EXCEPT !.st.total_events = @ + 1, !.steps = Append(@, "count")]

handle_event_basic(R, event, watch_path, alloc_ok) ==
    IF Len(event.name) > 0 /\ should_monitor_file(event.name)
    THEN PlainFlags(CountEvent(R), event, JoinPath(watch_path, event.name), alloc_ok)
    ELSE CountEvent(R)

\* counters that name the path of every resolved event as the most active one
CountEntryEvent_last_path(R, i, n) ==
    [R EXCEPT !.wm.entries[i].event_count = n,
              !.steps = Append(@, "count"),
              !.st.total_events = @ + 1,
              !.st.max_events_per_path = IF n > @ THEN n ELSE @,
              !.st.most_active_path = R.wm.entries[i].path]

\* the per-entry and global counters of handle_event_enhanced, entry i hit n times
CountEntryEvent(R, i, n) ==
    [R EXCEPT !.wm.entries[i].event_count = n,
              !.steps = Append(@, "count"),
              !.st.total_events = @ + 1,
              !.st.max_events_per_path = IF n > @ THEN n ELSE @,
              !.st.most_active_path = IF n > R.st.max_events_per_path
                                      THEN R.wm.entries[i].path ELSE @]

\* a handler that counts an event whose watch it cannot resolve
handle_event_enhanced_k_counting(R, event, i, alloc_ok) ==
    IF i = 0
    THEN CountEvent(log_event(R, Line("[WARN] Event from unknown watch descriptor", NoName)))
    ELSE IF Len(event.name) > 0 /\ should_monitor_file(event.name)
    THEN PlainFlags(CountEntryEvent(R, i, R.wm.entries[i].event_count + 1), event,
                    JoinPath(R.wm.entries[i].path, event.name), alloc_ok)
    ELSE CountEntryEvent(R, i, R.wm.entries[i].event_count + 1)

handle_event_enhanced_k(R, event, i, alloc_ok) ==
    IF i = 0 THEN log_event(R, Line("[WARN] Event from unknown watch descriptor", NoName))
    ELSE IF Len(event.name) > 0 /\ should_monitor_file(event.name)
    THEN PlainFlags(CountEntryEvent(R, i, R.wm.entries[i].event_count + 1), event,
                    JoinPath(R.wm.entries[i].path, event.name), alloc_ok)
    ELSE CountEntryEvent(R, i, R.wm.entries[i].event_count + 1)

handle_event_enhanced(R, event, alloc_ok) ==
    handle_event_enhanced_k(R, event, find_watch_by_wd(R.wm, event.wd), alloc_ok)

\* a gate that reports every modify notification
ModifiedGate_ungated(c, tag, full_path) ==
    log_event([c.r EXCEPT !.conf = [called |-> TRUE, path |-> full_path, ret |-> c.ret],
                          !.steps = Append(@, "cache")],
              Line(tag, full_path))

\* the Modified branch of the checksum handlers: c is what the cache answered
ModifiedGate(c, tag, full_path) ==
    LogIf([c.r EXCEPT !.conf = [called |-> TRUE, path |-> full_path, ret |-> c.ret],
                      !.steps = Append(@, "cache")],
          c.ret, Line(tag, full_path))

handle_event_advanced_k(R, event, full_path, alloc_ok) ==
    TailFlags(
        IF "IN_MODIFY" \in event.mask
        THEN ModifiedGate(
                check_file_changed(
                    LogIf(OnCreate(R, event.mask, full_path, alloc_ok),
                          "IN_DELETE" \in event.mask, Line("Deleted", full_path)),
                    full_path),
                "Modified (checksum changed)", full_path)
        ELSE LogIf(OnCreate(R, event.mask, full_path, alloc_ok),
                   "IN_DELETE" \in event.mask, Line("Deleted", full_path)),
        event.mask, full_path)

handle_event_advanced(R, event, watch_path, alloc_ok) ==
    IF Len(event.name) > 0 /\ should_monitor_file(event.name)
    THEN handle_event_advanced_k(CountEvent(R), event,
                                 JoinPath(watch_path, event.name), alloc_ok)
    ELSE CountEvent(R)

\* advanced_monitor.c: the flag tests after Modified
TailFlagsAdv(R, mask, full_path) ==
    LogIf(LogIf(LogIf(LogIf(LogIf(R,
        "IN_MOVED_FROM" \in mask, Line("Moved from", full_path)),
        "IN_MOVED_TO" \in mask, Line("Moved to", full_path)),
        "IN_ATTRIB" \in mask, Line("Attribute changed", full_path)),
        "IN_OPEN" \in mask, Line("Opened", full_path)),
        "IN_CLOSE_WRITE" \in mask, Line("Closed", full_path))

\* advanced_monitor.c: from the stat of full_path on
handle_event_flags(R, event, full_path, alloc_ok) ==
    TailFlagsAdv(
        IF "IN_MODIFY" \in event.mask
        THEN ModifiedGate(
                has_file_changed(
                    LogIf(OnCreate(R, event.mask, full_path, alloc_ok),
                          "IN_DELETE" \in event.mask, Line("Deleted", full_path)),
                    full_path),
                "Modified", full_path)
        ELSE LogIf(OnCreate(R, event.mask, full_path, alloc_ok),
                   "IN_DELETE" \in event.mask, Line("Deleted", full_path)),
        event.mask, full_path)

handle_event_k(f, event, full_path, alloc_ok) ==
    IF ~f.ret THEN f.r
    ELSE handle_event_flags(
            LogIf(f.r, /\ StatPath(full_path).kind # "none"
                       /\ SizeOf(full_path) > max_file_size_mb * 1024 * 1024,
                  Line("Large file detected", full_path)),
            event, full_path, alloc_ok)

\* handle_event of advanced_monitor.c
handle_event(R, event, watch_path, alloc_ok) ==
    IF Len(event.name) = 0 THEN R
    ELSE IF \/ event.name = ADV_LOG_FILE
            \/ event.name = ADV_CONFIG_FILE
            \/ event.name = ADV_STATS_FILE
            \/ StrStr(event.name, DOT_TMP)
            \/ StrStr(event.name, DOT_SWP)
    THEN R
    ELSE handle_event_k(should_monitor_file_adv(R, event.name), event,
                        JoinPath(watch_path, event.name), alloc_ok)

dispatch_k(R, event, j, alloc_ok) ==
    IF j = 0 THEN R
    ELSE IF prog = "advanced_monitor" THEN handle_event(R, event, R.wpaths[j], alloc_ok)
    ELSE IF mode = "advanced" THEN handle_event_advanced(R, event, R.wpaths[j], alloc_ok)
    ELSE handle_event_basic(R, event, R.wpaths[j], alloc_ok)

\* one iteration of the inner loop of main: resolve the watch, call the handler
dispatch(R, event, alloc_ok) ==
    IF prog = "monitor" /\ mode = "enhanced" THEN handle_event_enhanced(R, event, alloc_ok)
    ELSE dispatch_k(R, event, find_watch_path(R.wdesc, R.wcount, event.wd), alloc_ok)

(***************************************************************************)
(* The log file, its rotation and its generations.  A file is its inode    *)
(* (0: no such file), its size in bytes, the lines this run appended to it *)
(* and, for a compressed file, the inode it was compressed from.           *)
(***************************************************************************)
MAX_LOG_FILES == 10
MAX_LOG_SIZE_MB == 50
ENH_LOG_LIMIT == 10 * 1024 * 1024
MB == 1024 * 1024

Generations == 0..(MAX_LOG_FILES - 1)
NoLog == [ino |-> 0, size |-> 0, lines |-> <<>>, gz_of |-> 0]
NewLog(ino) == [ino |-> ino, size |-> 0, lines |-> <<>>, gz_of |-> 0]

\* the inode whose content a file holds
Origin(f) == IF f.gz_of # 0 THEN f.gz_of ELSE f.ino

\* gzwrite at level 9 of everything fread delivers: the same lines, fewer bytes
Gzip(f, ino) == [ino |-> ino, size |-> 20 + f.size \div 10, lines |-> f.lines,
                 gz_of |-> f.ino]

NoIoFaults == [rename_ok |-> TRUE, fopen_ok |-> TRUE, gzopen_ok |-> TRUE,
               closed_write |-> "lost"]
\* no fault, or one kind of fault
IoFaults == {NoIoFaults,
             [NoIoFaults EXCEPT !.rename_ok = FALSE],
             [NoIoFaults EXCEPT !.fopen_ok = FALSE],
             [NoIoFaults EXCEPT !.gzopen_ok = FALSE],
             [NoIoFaults EXCEPT !.closed_write = "crash"]}

NoHist == [rotations |-> 0, serial |-> 0, lost |-> {}, overwritten |-> {},
           unlinked |-> {}, rotated |-> {}, crashed |-> FALSE, overflow |-> FALSE,
           crossed |-> FALSE, pre_rot |-> 0,
           appended |-> {}, events |-> 0, ticks |-> 0, signals |-> 0,
           handling |-> [t \in {"main", "stats"} |-> {}], sigint |-> FALSE,
           cut_short |-> FALSE, stats_alive |-> TRUE,
           unlocked |-> {}, holding |-> {}, stale |-> {}, used_stale |-> FALSE,
           cancelled |-> FALSE, late_save |-> FALSE]

\* what the log functions work on
MkL == [log_file |-> log_file, d |-> disk, io |-> io, h |-> hist]

\* the process is gone: a fault on the closed stream, or the stack ran out
Dead(L) == L.h.crashed \/ L.h.overflow

\* the next line of the run, k messages long
Stamp(L, msg, k) == [msg |-> msg, n |-> L.h.serial + 1, k |-> k]

\* fprintf and fflush on log_file; the stream was closed by fclose and the
\* pointer kept: the bytes go nowhere, or the process faults
fprintf_log(L, msg, k) ==
    IF L.log_file = "open"
    THEN [L EXCEPT !.d.log.lines = Append(@, Stamp(L, msg, k)),
                   !.d.log.size = @ + k * LineBytes,
                   !.h.serial = @ + 1]
    ELSE IF L.io.closed_write = "crash"
    THEN [L EXCEPT !.h.crashed = TRUE, !.h.serial = @ + 1]
    ELSE [L EXCEPT !.h.lost = @ \cup {Stamp(L, msg, k)}, !.h.serial = @ + 1]

\* unlink(LOG_FILE.i)
unlink_gen(L, i) ==
    IF ~L.io.rename_ok THEN L
    ELSE [L EXCEPT !.d.gen[i] = NoLog, !.h.unlinked = @ \cup {Origin(L.d.gen[i])}]

\* rename(LOG_FILE.i, LOG_FILE.j): a file at the new name is replaced, which
\* unlinks it
rename_gen(L, i, j) ==
    IF ~L.io.rename_ok THEN L
    ELSE [L EXCEPT !.d.gen[j] = L.d.gen[i],
                   !.d.gen[i] = NoLog,
                   !.h.unlinked = IF L.d.gen[j].ino # 0
                                  THEN @ \cup {Origin(L.d.gen[j])} ELSE @]

\* the for loop of rotate_log_file from i down to 1
RECURSIVE shift_generations(_, _)
shift_generations(L, i) ==
    IF i = 0 THEN L
    ELSE shift_generations(
            IF L.d.gen[i - 1].ino # 0
            THEN IF i = MAX_LOG_FILES - 1 THEN unlink_gen(L, i - 1)
                 ELSE rename_gen(L, i - 1, i)
            ELSE L,
            i - 1)

\* fclose(log_file): the pointer keeps its value
rotate_fclose(L) == [L EXCEPT !.log_file = "closed", !.h.rotations = @ + 1]

\* rename(LOG_FILE, LOG_FILE.0)
rotate_rename(L) ==
    IF L.io.rename_ok /\ L.d.log.ino # 0
    THEN [L EXCEPT !.d.gen[0] = L.d.log,
                   !.d.log = NoLog,
                   !.h.unlinked = IF L.d.gen[0].ino # 0
                                  THEN @ \cup {Origin(L.d.gen[0])} ELSE @,
                   !.h.rotated = @ \cup {L.d.log.ino}]
    ELSE L

\* compress_old_log(LOG_FILE.i): gzopen "wb9" truncates a file of that name;
\* its last statement logs through the stream rotate_log_file has closed
compress_old_log(L, i) ==
    IF L.d.gen[i].ino = 0 THEN L
    ELSE IF ~L.io.gzopen_ok THEN L
    ELSE fprintf_log(
            unlink_gen(
                [L EXCEPT !.d.gz[i] = Gzip(L.d.gen[i],
                                           IF @.ino # 0 THEN @.ino ELSE L.d.next_ino),
                          !.d.next_ino = IF L.d.gz[i].ino # 0 THEN @ ELSE @ + 1,
                          !.h.overwritten = IF L.d.gz[i].ino # 0
                                            THEN @ \cup {Origin(L.d.gz[i])} ELSE @],
                i),
            "Compressed log file", 1)

rotate_compress(L) == IF enable_compression THEN compress_old_log(L, 0) ELSE L

\* fopen(LOG_FILE, "a"): the file is made when there is none
fopen_log(L) ==
    IF ~L.io.fopen_ok THEN [L EXCEPT !.log_file = "null"]
    ELSE [L EXCEPT !.log_file = "open",
                   !.d.log = IF @.ino = 0 THEN NewLog(L.d.next_ino) ELSE @,
                   !.d.next_ino = IF L.d.log.ino = 0 THEN @ + 1 ELSE @]

RECURSIVE LogEvent(_, _, _)

\* log_file = fopen(...); if (log_file) log_event("... rotated ...")
rotate_reopen(L, msg, fuel) ==
    IF Dead(L) THEN L
    ELSE IF ~L.io.fopen_ok THEN fopen_log(L)
    ELSE LogEvent(fopen_log(L), msg, fuel - 1)

\* rotate_log_file() of monitor.c and of advanced_monitor.c; fuel is the
\* number of nested calls the stack still has room for
rotate_log_file(L, fuel) ==
    IF L.log_file = "null" THEN L
    ELSE IF fuel = 0 THEN [L EXCEPT !.h.overflow = TRUE]
    ELSE rotate_reopen(
            rotate_compress(rotate_rename(
                shift_generations(rotate_fclose(L), MAX_LOG_FILES - 1))),
            "Log file rotated successfully", fuel)

\* monitor.c: the size test after the line is written
log_event_monitor_k(W, fuel) ==
    IF /\ ~Dead(W)
       /\ W.log_file = "open"
       /\ mode = "advanced"
       /\ W.d.log.size > MAX_LOG_SIZE_MB * MB
    THEN rotate_log_file(W, fuel)
    ELSE W

\* log_event of monitor.c on the log file
log_event_monitor(L, msg, k, fuel) ==
    IF Dead(L) \/ L.log_file = "null" THEN L
    ELSE log_event_monitor_k(fprintf_log(L, msg, k), fuel)

\* log_event of advanced_monitor.c on the log file
log_event_adv(L, msg, k) ==
    IF Dead(L) THEN L
    ELSE IF L.log_file = "null" THEN [L EXCEPT !.h.serial = @ + 1]
    ELSE fprintf_log(L, msg, k)

\* enhanced_monitor.c: rename(LOG_FILE, LOG_FILE.old)
rename_old(L) ==
    IF L.io.rename_ok /\ L.d.log.ino # 0
    THEN [L EXCEPT !.d.old = L.d.log,
                   !.d.log = NoLog,
                   !.h.unlinked = IF L.d.old.ino # 0
                                  THEN @ \cup {Origin(L.d.old)} ELSE @,
                   !.h.rotated = @ \cup {L.d.log.ino}]
    ELSE L

\* enhanced_monitor.c: the rotation inside log_event
log_event_enhanced_k(W, fuel) ==
    IF /\ ~Dead(W)
       /\ W.log_file = "open"
       /\ W.d.log.size > ENH_LOG_LIMIT
    THEN IF fuel = 0 THEN [W EXCEPT !.h.overflow = TRUE]
         ELSE rotate_reopen(rename_old(rotate_fclose(W)), "[INFO] Log file rotated", fuel)
    ELSE W

\* log_event of enhanced_monitor.c
log_event_enhanced(L, msg, k, fuel) ==
    IF Dead(L) \/ L.log_file = "null" THEN L
    ELSE log_event_enhanced_k(fprintf_log(L, msg, k), fuel)

\* log_event(message) of the running program
LogEvent(L, msg, fuel) ==
    IF prog = "monitor" THEN log_event_monitor(L, msg, 1, fuel)
    ELSE IF prog = "enhanced_monitor" THEN log_event_enhanced(L, msg, 1, fuel)
    ELSE log_event_adv(L, msg, 1)

\* check_system_resources of advanced_monitor.c, the log size part
check_system_resources(L, fuel) ==
    IF L.d.log.ino # 0 /\ L.d.log.size \div MB > MAX_LOG_SIZE_MB
    THEN rotate_log_file(
            log_event_adv(L, "[WARN] Log file size limit reached. Rotating...", 1),
            fuel)
    ELSE L

(***************************************************************************)
(* State, initial states and steps.                                        *)
(***************************************************************************)
\* the programs and modes: advanced_monitor.c has the one mode
ProgModes == {<<"monitor", "basic">>, <<"monitor", "advanced">>,
              <<"monitor", "enhanced">>, <<"advanced_monitor", "advanced">>}
InoIds == 1..(MaxOps + 3)
Contents == {<<1>>, <<2>>}
Enhanced == prog = "monitor" /\ mode = "enhanced"

NoConf == [called |-> FALSE, path |-> NoName, ret |-> FALSE]
NoEvent == Event(0, {}, NoName)
NoFile == [exists |-> FALSE, readable |-> FALSE, bytes |-> <<>>]
NeverSeen == [called |-> FALSE, opened |-> FALSE, bytes |-> <<>>, changed |-> FALSE,
              base |-> <<>>]
ZeroStats == [total_events |-> 0, memory_reallocations |-> 0, watch_limit_hits |-> 0,
              max_events_per_path |-> 0, most_active_path |-> <<"n", "o", "n", "e">>,
              events_processed |-> 0, files_monitored |-> 0]
NoLink == [name |-> NoName, target |-> NoName]
NoFaults == [root |-> "dir", denied |-> {}, opendir_ok |-> TRUE, link |-> NoLink,
             own_files |-> FALSE]
NotAsked == [called |-> FALSE, filename |-> NoName, ret |-> FALSE]
Idle == [op |-> "env", event |-> NoEvent, conf |-> NoConf, alloc_ok |-> TRUE,
         pre_fh |-> <<>>, pre_hc |-> 0, pre_seen |-> NeverSeen,
         pre_stats |-> ZeroStats, pre_count |-> 0, pre_capacity |-> 0, pre_reg_ok |-> 0,
         steps |-> <<>>]

\* size().count of the registry in use
RegCount == IF Enhanced THEN watch_manager.count ELSE watch_count

\* what a handler works on
MkR == [wm |-> watch_manager, wdesc |-> watch_descriptors, wpaths |-> watch_paths,
        wcount |-> watch_count, st |-> stats,
        fh |-> file_hashes, hc |-> hash_count, hcap |-> hash_capacity,
        k |-> [watch |-> k_watch, next_wd |-> k_next_wd, nwatches |-> k_nwatches],
        out |-> <<>>, issued |-> issued, reg_ok |-> reg_ok, conf |-> NoConf,
        steps |-> <<>>]

Commit(R) ==
    /\ watch_manager' = R.wm
    /\ watch_descriptors' = R.wdesc
    /\ watch_paths' = R.wpaths
    /\ watch_count' = R.wcount
    /\ stats' = R.st
    /\ file_hashes' = R.fh
    /\ hash_count' = R.hc
    /\ hash_capacity' = R.hcap
    /\ k_watch' = R.k.watch
    /\ k_next_wd' = R.k.next_wd
    /\ k_nwatches' = R.k.nwatches
    /\ log_out' = R.out
    /\ issued' = R.issued
    /\ reg_ok' = R.reg_ok
    /\ reported' = reported \cup {R.out[i].path : i \in {j \in 1..Len(R.out) :
                                                            R.out[j].tag = "Created"}}

\* the record of a program step: its input, the cache's answer, the state before
Note(op, event, alloc_ok, R) ==
    [op |-> op, event |-> event, conf |-> R.conf, alloc_ok |-> alloc_ok,
     pre_fh |-> file_hashes, pre_hc |-> hash_count,
     pre_seen |-> IF R.conf.called /\ FileOf(R.conf.path) # NoName
                  THEN seen[FileOf(R.conf.path)] ELSE NeverSeen,
     pre_stats |-> stats, pre_count |-> RegCount,
     pre_capacity |-> watch_manager.capacity, pre_reg_ok |-> reg_ok,
     steps |-> R.steps]

\* the confirm_change call of a step, remembered per file
SeenAfter(conf) ==
    IF conf.called /\ FileOf(conf.path) # NoName
    THEN [seen EXCEPT ![FileOf(conf.path)] =
            [called |-> TRUE, opened |-> CanOpen(conf.path),
             bytes |-> files[FileOf(conf.path)].bytes, changed |-> FALSE,
             base |-> files[FileOf(conf.path)].bytes]]
    ELSE seen

Config == <<prog, mode, recursive_mode, file_extensions, enable_checksum, patterns,
            max_file_size_mb, nfill, k_max_watches, faults>>

Runtime == <<enable_compression, log_file, disk, io, running, threads, mutexes, hist>>

ThreadNames == {"main", "stats"}
MutexNames == {"stats_mutex", "watch_manager.mutex", "hash_mutex"}

\* the log directory after main has opened the log
FreshDisk == [log |-> NewLog(1), gen |-> [i \in Generations |-> NoLog],
              gz |-> [i \in Generations |-> NoLog], old |-> NoLog, next_ino |-> 2,
              stats_doc |-> [exists |-> FALSE, bytes |-> <<>>]]

\* log open, nothing rotated, no thread inside a function, no mutex held
InitRuntime ==
    /\ enable_compression = TRUE
    /\ log_file = "open"
    /\ disk = FreshDisk
    /\ io = NoIoFaults
    /\ running = TRUE
    /\ threads = [t \in ThreadNames |-> <<>>]
    /\ mutexes = [m \in MutexNames |-> "none"]
    /\ hist = NoHist

\* the globals after their initialisers and, in enhanced mode, init_watch_manager
InitGlobals ==
    /\ pc = "start"
    /\ watch_descriptors = <<>>
    /\ watch_paths = <<>>
    /\ watch_count = 0
    /\ watch_manager = [entries |-> <<>>,
                        capacity |-> IF Enhanced THEN INITIAL_WATCH_CAPACITY ELSE 0,
                        count |-> 0]
    /\ stats = ZeroStats
    /\ file_hashes = <<>>
    /\ hash_count = 0
    /\ hash_capacity = 0
    /\ log_out = <<>>

\* with max_file_size_mb as its initialiser leaves it
InitProgram == InitGlobals /\ max_file_size_mb = 100

InitKernel ==
    /\ faults = NoFaults
    /\ k_watch = [i \in InoIds |-> 0]
    /\ k_next_wd = 1
    /\ k_nwatches = 0
    /\ k_next_ino = 3
    /\ queue = <<>>
    /\ ops = 0

InitHistory ==
    /\ issued = {}
    /\ seen = [f \in FileNames |-> NeverSeen]
    /\ reg_ok = 0
    /\ asked = NotAsked
    /\ reported = {}
    /\ last = Idle

\* the registry on a small tree
Init ==
    /\ \E pm \in ProgModes : prog = pm[1] /\ mode = pm[2]
    /\ recursive_mode \in BOOLEAN
    /\ file_extensions = <<>>
    /\ enable_checksum = TRUE
    /\ patterns = <<>>
    /\ nfill = 0
    /\ fs_dirs \in {[n \in DirNames |-> 0], [n \in DirNames |-> IF n = <<"a">> THEN 2 ELSE 0]}
    /\ files = [f \in FileNames |-> NoFile]
    /\ k_max_watches \in {2, 8192}
    /\ InitProgram /\ InitRuntime /\ InitKernel /\ InitHistory

\* main: the initial add_watch_recursive of the root; failure exits
Install ==
    /\ pc = "start"
    /\ \E alloc_ok \in BOOLEAN :
         \E a \in {add_watch_recursive(MkR, RootPath, alloc_ok)} :
            /\ Commit(a.r)
            /\ pc' = IF a.ret = -1 THEN "exited" ELSE "running"
            /\ last' = Note("install", NoEvent, alloc_ok, a.r)
    /\ UNCHANGED <<Config, Runtime, max_file_size_mb, fs_dirs, files, k_next_ino, queue, ops, seen,
                   asked>>

\* main: the next event of the batch is handled
Dispatch ==
    /\ pc = "running"
    /\ queue # <<>>
    /\ \E alloc_ok \in BOOLEAN :
         \E R \in {dispatch(MkR, Head(queue), alloc_ok)} :
            /\ Commit(R)
            /\ last' = Note("dispatch", Head(queue), alloc_ok, R)
            /\ seen' = SeenAfter(R.conf)
    /\ queue' = Tail(queue)
    /\ UNCHANGED <<Config, Runtime, max_file_size_mb, pc, fs_dirs, files, k_next_ino, ops, asked>>

(***************************************************************************)
(* The environment: other processes change the tree, the kernel queues     *)
(* the events of the watches that see the change.                          *)
(***************************************************************************)
RootEvents(evs) == IF k_watch[RootIno] # 0
                   THEN [i \in 1..Len(evs) |-> Event(k_watch[RootIno], evs[i][1], evs[i][2])]
                   ELSE <<>>

\* the kernel drops an event equal to the last one still waiting
Enqueue(q, evs) ==
    IF q # <<>> /\ evs # <<>> /\ q[Len(q)] = Head(evs) THEN q \o Tail(evs) ELSE q \o evs

EnvStep(new_events) ==
    /\ pc = "running"
    /\ ops < MaxOps
    /\ Len(Enqueue(queue, new_events)) <= MaxQueue
    /\ queue' = Enqueue(queue, new_events)
    /\ ops' = ops + 1
    /\ last' = Idle
    /\ log_out' = <<>>
    /\ UNCHANGED <<Config, Runtime, max_file_size_mb, pc, watch_descriptors, watch_paths,
                   watch_count, watch_manager, stats, file_hashes, hash_count,
                   hash_capacity, k_next_wd, issued, reg_ok, asked, reported>>

Mkdir ==
    \E n \in DirNames :
      /\ fs_dirs[n] = 0
      /\ k_next_ino \in InoIds
      /\ fs_dirs' = [fs_dirs EXCEPT ![n] = k_next_ino]
      /\ k_next_ino' = k_next_ino + 1
      /\ EnvStep(RootEvents(<< <<{"IN_CREATE", "IN_ISDIR"}, n>> >>))
      /\ UNCHANGED <<files, k_watch, k_nwatches, seen>>

\* removing a watched directory ends its watch: the kernel queues IN_IGNORED
Rmdir ==
    \E n \in DirNames :
      /\ fs_dirs[n] # 0
      /\ fs_dirs' = [fs_dirs EXCEPT ![n] = 0]
      /\ k_watch' = [k_watch EXCEPT ![fs_dirs[n]] = 0]
      /\ k_nwatches' = IF k_watch[fs_dirs[n]] # 0 THEN k_nwatches - 1 ELSE k_nwatches
      /\ EnvStep(RootEvents(<< <<{"IN_DELETE", "IN_ISDIR"}, n>> >>)
                 \o (IF k_watch[fs_dirs[n]] # 0
                     THEN <<Event(k_watch[fs_dirs[n]], {"IN_IGNORED"}, NoName)>>
                     ELSE <<>>))
      /\ UNCHANGED <<files, k_next_ino, seen>>

\* a renamed directory keeps its inode and so its watch
Rename ==
    \E n \in DirNames, m \in DirNames :
      /\ fs_dirs[n] # 0
      /\ fs_dirs[m] = 0
      /\ fs_dirs' = [fs_dirs EXCEPT ![n] = 0, ![m] = fs_dirs[n]]
      /\ EnvStep(RootEvents(<< <<{"IN_MOVED_FROM", "IN_ISDIR"}, n>>,
                               <<{"IN_MOVED_TO", "IN_ISDIR"}, m>> >>))
      /\ UNCHANGED <<files, k_watch, k_nwatches, k_next_ino, seen>>

\* a file inside a watched directory under the root is opened
Touch ==
    \E n \in DirNames :
      /\ fs_dirs[n] # 0
      /\ k_watch[fs_dirs[n]] # 0
      /\ EnvStep(<<Event(k_watch[fs_dirs[n]], {"IN_OPEN"}, <<"m">>)>>)
      /\ UNCHANGED <<fs_dirs, files, k_watch, k_nwatches, k_next_ino, seen>>

Next == Install \/ Dispatch \/ Mkdir \/ Rmdir \/ Rename \/ Touch

Spec == Init /\ [][Next]_vars

(***************************************************************************)
(* Directories made while the monitor runs, and files made inside them.    *)
(***************************************************************************)
\* a file is created inside a watched directory under the root
CreateIn ==
    \E n \in DirNames, f \in FileNames :
      /\ fs_dirs[n] # 0
      /\ k_watch[fs_dirs[n]] # 0
      /\ EnvStep(<<Event(k_watch[fs_dirs[n]], {"IN_CREATE"}, f)>>)
      /\ UNCHANGED <<fs_dirs, files, k_watch, k_nwatches, k_next_ino, seen>>

InitNested ==
    /\ \E pm \in ProgModes : prog = pm[1] /\ mode = pm[2]
    /\ recursive_mode \in BOOLEAN
    /\ file_extensions \in {<<>>, << <<"t">> >>}
    /\ enable_checksum = TRUE
    /\ patterns = <<>>
    /\ nfill = 0
    /\ fs_dirs = [n \in DirNames |-> 0]
    /\ files = [f \in FileNames |-> NoFile]
    /\ k_max_watches \in {2, 8192}
    /\ InitProgram /\ InitRuntime /\ InitKernel /\ InitHistory

NextNested == Install \/ Dispatch \/ Mkdir \/ Rmdir \/ Rename \/ CreateIn

SpecNested == InitNested /\ [][NextNested]_vars

(***************************************************************************)
(* The queue of the inotify instance runs full.                            *)
(***************************************************************************)
\* more changes happen than the queue has room for: the kernel drops their
\* events and queues one IN_Q_OVERFLOW marker, with wd -1 and no name, unless
\* the marker is already the last event waiting
Overflow ==
    /\ pc = "running"
    /\ Len(queue) = MaxQueue
    /\ "IN_Q_OVERFLOW" \notin queue[Len(queue)].mask
    /\ queue' = Append(queue, Event(-1, {"IN_Q_OVERFLOW"}, NoName))
    /\ last' = Idle
    /\ log_out' = <<>>
    /\ UNCHANGED <<Config, Runtime, pc, watch_descriptors, watch_paths, watch_count, watch_manager,
                   stats, file_hashes, hash_count, hash_capacity, fs_dirs, files,
                   k_watch, k_next_wd, k_nwatches, k_next_ino, ops, issued, seen, reg_ok,
                   asked, reported>>

InitOverflow ==
    /\ \E pm \in ProgModes : prog = pm[1] /\ mode = pm[2]
    /\ recursive_mode \in BOOLEAN
    /\ file_extensions = <<>>
    /\ enable_checksum = TRUE
    /\ patterns = <<>>
    /\ nfill = 0
    /\ fs_dirs = [n \in DirNames |-> IF n = <<"a">> THEN 2 ELSE 0]
    /\ files = [f \in FileNames |-> NoFile]
    /\ k_max_watches = 8192
    /\ InitProgram /\ InitRuntime /\ InitKernel /\ InitHistory

NextOverflow == Install \/ Dispatch \/ Mkdir \/ Rmdir \/ Rename \/ Overflow

SpecOverflow == InitOverflow /\ [][NextOverflow]_vars

(***************************************************************************)
(* Startup on a tree with two directories, where the root may be missing   *)
(* or a regular file, a directory may be unreadable, opendir may fail and  *)
(* the kernel may run out of watches.                                      *)
(***************************************************************************)
InitInstall ==
    /\ \E pm \in ProgModes : prog = pm[1] /\ mode = pm[2]
    /\ recursive_mode \in BOOLEAN
    /\ file_extensions = <<>>
    /\ enable_checksum = TRUE
    /\ patterns = <<>>
    /\ nfill = 0
    /\ fs_dirs = [n \in DirNames |-> IF n = <<"a">> THEN 2 ELSE 3]
    /\ files = [f \in FileNames |-> NoFile]
    /\ k_max_watches \in {2, 8192}
    /\ faults \in [root : {"dir", "file", "none"},
                    denied : {{}, {JoinPath(RootPath, <<"a">>)}, {RootPath}},
                    opendir_ok : BOOLEAN,
                    link : {NoLink},
                    own_files : {FALSE}]
    /\ k_watch = [i \in InoIds |-> 0]
    /\ k_next_wd = 1
    /\ k_nwatches = 0
    /\ k_next_ino = 4
    /\ queue = <<>>
    /\ ops = 0
    /\ InitProgram /\ InitRuntime /\ InitHistory

NextInstall == Install \/ Dispatch \/ Touch \/ Rmdir

SpecInstall == InitInstall /\ [][NextInstall]_vars

\* startup on a tree with a symbolic link l under the root that names the
\* root itself (a cycle) or the directory a
InitLinks ==
    /\ \E pm \in ProgModes : prog = pm[1] /\ mode = pm[2]
    /\ recursive_mode \in BOOLEAN
    /\ file_extensions = <<>>
    /\ enable_checksum = TRUE
    /\ patterns = <<>>
    /\ nfill = 0
    /\ fs_dirs \in {[n \in DirNames |-> IF n = <<"a">> THEN 2 ELSE 3],
                    [n \in DirNames |-> IF n = <<"a">> THEN 2 ELSE 0]}
    /\ files = [f \in FileNames |-> NoFile]
    /\ k_max_watches = 8192
    /\ \E target \in {RootPath, JoinPath(RootPath, <<"a">>)} :
          faults = [NoFaults EXCEPT !.link = [name |-> <<"l">>, target |-> target]]
    /\ k_watch = [i \in InoIds |-> 0]
    /\ k_next_wd = 1
    /\ k_nwatches = 0
    /\ k_next_ino = 4
    /\ queue = <<>>
    /\ ops = 0
    /\ InitProgram /\ InitRuntime /\ InitHistory

SpecLinks == InitLinks /\ [][NextInstall]_vars

(***************************************************************************)
(* The registry on a tree large enough to fill the initial storage.        *)
(***************************************************************************)
InitGrowth ==
    /\ \E pm \in ProgModes : prog = pm[1] /\ mode = pm[2]
    /\ recursive_mode = TRUE
    /\ file_extensions = <<>>
    /\ enable_checksum = TRUE
    /\ patterns = <<>>
    /\ nfill = FillerDirs
    /\ fs_dirs = [n \in DirNames |-> 0]
    /\ files = [f \in FileNames |-> NoFile]
    /\ k_max_watches = 8192
    /\ InitProgram /\ InitRuntime /\ InitKernel /\ InitHistory

NextGrowth == Install \/ Dispatch \/ Mkdir \/ Rmdir

SpecGrowth == InitGrowth /\ [][NextGrowth]_vars

(***************************************************************************)
(* The checksum handlers on regular files in the watched directory.        *)
(***************************************************************************)
FileEnv(f, after, mask) ==
    /\ files' = [files EXCEPT ![f] = after]
    /\ seen' = [seen EXCEPT ![f].changed =
                  \/ @
                  \/ seen[f].called /\ (after.exists # files[f].exists
                                         \/ after.bytes # files[f].bytes),
                             ![f].base =
                  IF ~files[f].exists /\ after.exists THEN after.bytes ELSE @]
    /\ EnvStep(RootEvents(<< <<mask, f>> >>))
    /\ UNCHANGED <<fs_dirs, k_watch, k_nwatches, k_next_ino>>

CreateFile ==
    \E f \in FileNames :
      /\ ~files[f].exists
      /\ FileEnv(f, [exists |-> TRUE, readable |-> TRUE, bytes |-> <<>>], {"IN_CREATE"})

\* a write, possibly of the bytes the file already holds
WriteFile ==
    \E f \in FileNames, b \in Contents :
      /\ files[f].exists
      /\ FileEnv(f, [files[f] EXCEPT !.bytes = b], {"IN_MODIFY"})

\* the read permission is taken away or given back
Chmod ==
    \E f \in FileNames :
      /\ files[f].exists
      /\ FileEnv(f, [files[f] EXCEPT !.readable = ~@], {"IN_ATTRIB"})

DeleteFile ==
    \E f \in FileNames :
      /\ files[f].exists
      /\ FileEnv(f, NoFile, {"IN_DELETE"})

InitCache ==
    /\ \E pm \in {pm \in ProgModes : pm[2] = "advanced"} : prog = pm[1] /\ mode = pm[2]
    /\ recursive_mode = FALSE
    /\ file_extensions \in {<<>>, << <<"t">> >>}
    /\ enable_checksum \in (IF prog = "monitor" THEN {TRUE} ELSE BOOLEAN)
    /\ patterns = <<>>
    /\ nfill = 0
    /\ fs_dirs = [n \in DirNames |-> 0]
    /\ files = [f \in FileNames |->
                  IF f = <<"n", ".", "t">>
                  THEN [exists |-> TRUE, readable |-> TRUE, bytes |-> <<1>>]
                  ELSE NoFile]
    /\ k_max_watches = 8192
    /\ InitProgram /\ InitRuntime /\ InitKernel /\ InitHistory

NextCache == Install \/ Dispatch \/ CreateFile \/ WriteFile \/ Chmod \/ DeleteFile

SpecCache == InitCache /\ [][NextCache]_vars

\* advanced_monitor.c with the size ceiling of its configuration file: the
\* default, or max_file_size_mb=0, under which every file with a byte is large
InitLarge ==
    /\ prog = "advanced_monitor" /\ mode = "advanced"
    /\ recursive_mode = FALSE
    /\ file_extensions = <<>>
    /\ enable_checksum \in BOOLEAN
    /\ patterns = <<>>
    /\ nfill = 0
    /\ fs_dirs = [n \in DirNames |-> 0]
    /\ files = [f \in FileNames |->
                  IF f = <<"n", ".", "t">>
                  THEN [exists |-> TRUE, readable |-> TRUE, bytes |-> <<1>>]
                  ELSE NoFile]
    /\ k_max_watches = 8192
    /\ max_file_size_mb \in {0, 100}
    /\ InitGlobals /\ InitRuntime /\ InitKernel /\ InitHistory

SpecLarge == InitLarge /\ [][NextCache]_vars

(***************************************************************************)
(* The checksum handlers on files that are created while the monitor runs, *)
(* with the extension filter set.                                          *)
(***************************************************************************)
\* a write that leaves the file holding the bytes it already holds
Rewrite ==
    \E f \in FileNames :
      /\ files[f].exists
      /\ FileEnv(f, files[f], {"IN_MODIFY"})

InitScenario ==
    /\ \E pm \in {pm \in ProgModes : pm[2] = "advanced"} : prog = pm[1] /\ mode = pm[2]
    /\ recursive_mode = FALSE
    /\ file_extensions = << <<"t">> >>
    /\ enable_checksum = TRUE
    /\ patterns = <<>>
    /\ nfill = 0
    /\ fs_dirs = [n \in DirNames |-> 0]
    /\ files = [f \in FileNames |-> NoFile]
    /\ k_max_watches = 8192
    /\ InitProgram /\ InitRuntime /\ InitKernel /\ InitHistory

NextScenario == \/ Install \/ Dispatch \/ CreateFile \/ WriteFile \/ Rewrite
                \/ Chmod \/ DeleteFile

SpecScenario == InitScenario /\ [][NextScenario]_vars

(***************************************************************************)
(* The path filter: names, extension lists and rule lists to run it on.    *)
(***************************************************************************)
FilterNames == {<<"n", ".", "t">>, <<"m">>, <<"t">>, <<"n", ".", "T">>, <<"n", ".">>,
                <<"t", ".", "n">>, <<"a", ".", "t", ".", "n">>, <<"n", ".", "n", ".", "t">>}

ExtensionLists == {<<>>, << <<"t">> >>, << <<"n">>, <<"t">> >>}

Rule(pattern, action) == [pattern |-> pattern, action |-> action]

\* pattern_exclude= is action 0, pattern_include= 1, pattern_alert= 2
RuleLists == {<<>>,
              <<Rule(<<"n">>, 0), Rule(<<"n">>, 1)>>,
              <<Rule(<<"n">>, 1), Rule(<<"n">>, 0)>>,
              <<Rule(<<"a">>, 2), Rule(<<"n">>, 0)>>,
              <<Rule(<<"n">>, 2)>>,
              <<Rule(<<"m">>, 0), Rule(<<"t">>, 2), Rule(<<"T">>, 1)>>}

\* one call of should_monitor_file
Ask ==
    /\ pc = "running"
    /\ ops < MaxOps
    /\ \E filename \in FilterNames :
         \E a \in {should_monitor(MkR, filename)} :
            /\ Commit(a.r)
            /\ asked' = [called |-> TRUE, filename |-> filename, ret |-> a.ret]
    /\ ops' = ops + 1
    /\ last' = Idle
    /\ UNCHANGED <<Config, Runtime, max_file_size_mb, pc, fs_dirs, files, k_next_ino, queue, seen>>

InitFilter ==
    /\ \E pm \in ProgModes : prog = pm[1] /\ mode = pm[2]
    /\ recursive_mode = FALSE
    /\ file_extensions \in ExtensionLists
    /\ enable_checksum = TRUE
    /\ patterns \in (IF prog = "advanced_monitor" THEN RuleLists ELSE {<<>>})
    /\ nfill = 0
    /\ fs_dirs = [n \in DirNames |-> 0]
    /\ files = [f \in FileNames |-> NoFile]
    /\ k_max_watches = 8192
    /\ InitProgram /\ InitRuntime /\ InitKernel /\ InitHistory

NextFilter == Install \/ Ask

SpecFilter == InitFilter /\ [][NextFilter]_vars

(***************************************************************************)
(* The handlers on single notifications about names under the root: the    *)
(* programs' own files, editor leftovers, and ordinary files.  The masks    *)
(* are the single flags the kernel sends and, since the handlers test      *)
(* every flag of a mask on its own, some masks with several flags.         *)
(***************************************************************************)
EventNames == {<<"n", ".", "t">>, <<"m">>, <<"t", ".", "n">>,
               <<"m">> \o DOT_TMP, <<"m">> \o DOT_SWP,
               MON_LOG_FILE, MON_CONFIG_FILE, MON_STATS_FILE,
               ADV_LOG_FILE, ADV_CONFIG_FILE}

FlagOrder == <<"IN_CREATE", "IN_DELETE", "IN_MODIFY", "IN_MOVED_FROM", "IN_MOVED_TO",
               "IN_ATTRIB", "IN_OPEN", "IN_CLOSE_WRITE">>

EventMasks == {{FlagOrder[i]} : i \in 1..Len(FlagOrder)}
              \cup {{"IN_CLOSE_NOWRITE"},
                    {"IN_CREATE", "IN_MODIFY"},
                    {"IN_MOVED_TO", "IN_OPEN", "IN_CLOSE_WRITE"},
                    {FlagOrder[i] : i \in 1..Len(FlagOrder)}}

\* the kernel queues one notification of the root's watch, once the batch
\* before it has been handled
Notify ==
    \E name \in EventNames, mask \in EventMasks :
      /\ queue = <<>>
      /\ EnvStep(RootEvents(<< <<mask, name>> >>))
      /\ UNCHANGED <<fs_dirs, files, k_watch, k_nwatches, k_next_ino, seen>>

InitEvents ==
    /\ \E pm \in ProgModes : prog = pm[1] /\ mode = pm[2]
    /\ recursive_mode = FALSE
    /\ file_extensions \in {<<>>, << <<"t">> >>}
    /\ enable_checksum = TRUE
    /\ patterns \in (IF prog = "advanced_monitor"
                     THEN {<<>>, <<Rule(<<"n">>, 2)>>, <<Rule(<<"m">>, 0)>>}
                     ELSE {<<>>})
    /\ nfill = 0
    /\ fs_dirs = [n \in DirNames |-> 0]
    /\ files = [f \in FileNames |->
                  IF f = <<"n", ".", "t">>
                  THEN [exists |-> TRUE, readable |-> TRUE, bytes |-> <<1>>]
                  ELSE NoFile]
    /\ k_max_watches = 8192
    /\ InitProgram /\ InitRuntime /\ InitKernel /\ InitHistory

NextEvents == Install \/ Dispatch \/ Notify

SpecEvents == InitEvents /\ [][NextEvents]_vars

(***************************************************************************)
(* The monitor started in the directory it watches: LOG_FILE is opened     *)
(* relative to the working directory, so every line the monitor appends    *)
(* is a write under the root, and the root's watch (IN_MODIFY is in its    *)
(* mask) queues a notification for it.                                      *)
(***************************************************************************)
OwnLog == IF prog = "advanced_monitor" THEN ADV_LOG_FILE ELSE MON_LOG_FILE

\* the notifications the lines of one handler run cause: the kernel merges
\* equal notifications that follow each other
OwnWrites(R) ==
    IF faults.own_files /\ R.out # <<>>
    THEN RootEvents(<< <<{"IN_MODIFY"}, OwnLog>> >>)
    ELSE <<>>

\* the event counters only ever grow; here they stop at MaxCount
Sat(n) == IF n > MaxCount THEN MaxCount ELSE n

Saturated(R) ==
    [R EXCEPT !.st.total_events = Sat(@),
              !.st.events_processed = Sat(@),
              !.st.max_events_per_path = Sat(@),
              !.wm.entries = [i \in DOMAIN @ |-> [@[i] EXCEPT !.event_count = Sat(@)]]]

\* main: the next event of the batch is handled, and what the handler wrote
\* to the log comes back as a notification
DispatchInTree ==
    /\ pc = "running"
    /\ queue # <<>>
    /\ \E alloc_ok \in BOOLEAN :
         \E R \in {dispatch(MkR, Head(queue), alloc_ok)} :
            /\ Commit(Saturated(R))
            /\ last' = Note("dispatch", Head(queue), alloc_ok, R)
            /\ seen' = SeenAfter(R.conf)
            /\ queue' = Enqueue(Tail(queue), OwnWrites(R))
    /\ UNCHANGED <<Config, Runtime, max_file_size_mb, pc, fs_dirs, files, k_next_ino, ops, asked>>

InitFeedback ==
    /\ \E pm \in ProgModes : prog = pm[1] /\ mode = pm[2]
    /\ recursive_mode = FALSE
    /\ file_extensions \in {<<>>, << <<"t">> >>}
    /\ enable_checksum = TRUE
    /\ patterns = <<>>
    /\ nfill = 0
    /\ fs_dirs = [n \in DirNames |-> 0]
    /\ files = [f \in FileNames |->
                  IF f = <<"n", ".", "t">>
                  THEN [exists |-> TRUE, readable |-> TRUE, bytes |-> <<1>>]
                  ELSE NoFile]
    /\ k_max_watches = 8192
    /\ faults \in {NoFaults, [NoFaults EXCEPT !.own_files = TRUE]}
    /\ k_watch = [i \in InoIds |-> 0]
    /\ k_next_wd = 1
    /\ k_nwatches = 0
    /\ k_next_ino = 3
    /\ queue = <<>>
    /\ ops = 0
    /\ InitProgram /\ InitRuntime /\ InitHistory

\* another process creates or writes a file under the root
Change ==
    \E name \in {<<"n", ".", "t">>, <<"m">>}, mask \in {{"IN_CREATE"}, {"IN_MODIFY"}} :
      /\ queue = <<>>
      /\ EnvStep(RootEvents(<< <<mask, name>> >>))
      /\ UNCHANGED <<fs_dirs, files, k_watch, k_nwatches, k_next_ino, seen>>

NextFeedback == Install \/ DispatchInTree \/ Change

\* the dispatcher does not stop while events wait
SpecFeedback == InitFeedback /\ [][NextFeedback]_vars /\ WF_vars(DispatchInTree)

(***************************************************************************)
(* What the properties read.                                               *)
(***************************************************************************)
(* The log under load: events are logged, the log passes its ceiling, the  *)
(* timer thread of advanced_monitor.c looks at its size.                   *)
(***************************************************************************)
\* the programs that write a log: the four of ProgModes and enhanced_monitor.c
LogProgs == ProgModes \cup {<<"enhanced_monitor", "enhanced">>}

\* the configured ceiling in bytes
Ceiling == IF prog = "enhanced_monitor" THEN ENH_LOG_LIMIT ELSE MAX_LOG_SIZE_MB * MB

\* the program's log_event tests the size after the line is written
RotatesOnAppend == \/ prog = "enhanced_monitor"
                   \/ prog = "monitor" /\ mode = "advanced"

LogStep(L, crossed) ==
    /\ log_file' = L.log_file
    /\ disk' = L.d
    /\ hist' = [L.h EXCEPT !.crossed = crossed, !.pre_rot = hist.rotations]
    /\ UNCHANGED <<Config, max_file_size_mb, pc, watch_descriptors, watch_paths,
                   watch_count, watch_manager, stats, file_hashes, hash_count,
                   hash_capacity, log_out, fs_dirs, files, k_watch, k_next_wd,
                   k_nwatches, k_next_ino, queue, ops, issued, seen, reg_ok, asked,
                   reported, last, enable_compression, io, running, threads, mutexes>>

LogGuard == /\ ~Dead(MkL)
            /\ hist.rotations < MaxRotations
            /\ Len(disk.log.lines) < MaxLines

\* one event is logged: the first of the run, or one that finds the log full
AppendLine ==
    /\ LogGuard
    /\ RotatesOnAppend
    /\ disk.log.lines = <<>> \/ disk.log.size + LineBytes > Ceiling
    /\ LogStep(LogEvent(MkL, "event", MaxNest),
               /\ prog # "advanced_monitor"
               /\ log_file = "open"
               /\ disk.log.size + LineBytes > Ceiling)

\* k events are logged, none of the k calls rotates: k calls of a log_event
\* without a size test, or as many as keep the file at or under the ceiling
Fill ==
    /\ LogGuard
    /\ log_file = "open"
    /\ \E k \in {(Ceiling - disk.log.size) \div LineBytes,
                 (Ceiling + MB - disk.log.size) \div LineBytes + 1} :
         /\ k >= 1
         /\ RotatesOnAppend => disk.log.size + k * LineBytes <= Ceiling
         /\ LogStep(fprintf_log(MkL, "events", k),
                    /\ prog # "advanced_monitor"
                    /\ disk.log.size + k * LineBytes > Ceiling)

\* advanced_monitor.c: the timer thread checks the resources
Tick ==
    /\ prog = "advanced_monitor"
    /\ ~Dead(MkL)
    /\ hist.rotations < MaxRotations
    /\ LogStep(check_system_resources(MkL, MaxNest),
               disk.log.ino # 0 /\ disk.log.size > Ceiling)

InitLog ==
    /\ \E pm \in LogProgs : prog = pm[1] /\ mode = pm[2]
    /\ recursive_mode = FALSE
    /\ file_extensions = <<>>
    /\ enable_checksum = TRUE
    /\ patterns = <<>>
    /\ nfill = 0
    /\ fs_dirs = [n \in DirNames |-> 0]
    /\ files = [f \in FileNames |-> NoFile]
    /\ k_max_watches = 8192
    /\ InitProgram /\ InitKernel /\ InitHistory
    /\ enable_compression \in BOOLEAN
    /\ log_file = "open"
    /\ \E s0 \in {0, Ceiling - LineBytes} : disk = [FreshDisk EXCEPT !.log.size = s0]
    /\ io \in IoFaults
    /\ running = TRUE
    /\ threads = [t \in ThreadNames |-> <<>>]
    /\ mutexes = [m \in MutexNames |-> "none"]
    /\ hist = NoHist

NextLog == AppendLine \/ Fill \/ Tick

SpecLog == InitLog /\ [][NextLog]_vars

(***************************************************************************)
(* Threads, mutexes and signals.  A function is the sequence of the steps  *)
(* another thread or a signal handler can come between; a thread holds the *)
(* steps it still has to execute, a handler's steps in front of those of   *)
(* the code it interrupts.                                                 *)
(***************************************************************************)
Op(o, a) == [op |-> o, arg |-> a]

WM_MUTEX == "watch_manager.mutex"
STATS_MUTEX == "stats_mutex"

\* the serialised snapshot: the counter in decimal between braces
StatsDoc(n) == <<"{">> \o Digits(n) \o <<"}">>

\* log_event(msg): advanced_monitor.c counts the line under stats_mutex
log_event_ops(msg) ==
    IF prog = "advanced_monitor"
    THEN <<Op("fprintf", msg), Op("lock", STATS_MUTEX),
           Op("count", "events_processed"), Op("unlock", STATS_MUTEX)>>
    ELSE <<Op("fprintf", msg)>>

\* save_stats_to_file of advanced_monitor.c: fopen "w" truncates, the text
\* reaches the file when fclose flushes it
save_stats_to_file_ops ==
    <<Op("lock", STATS_MUTEX), Op("snapshot", "events_processed"), Op("fopen_w", ""),
      Op("fclose_w", <<>>), Op("unlock", STATS_MUTEX)>>

\* save_stats of monitor.c: json_object_to_file opens with O_TRUNC, then writes
save_stats_ops ==
    <<Op("update", ""), Op("snapshot", "total_events"), Op("fopen_w", ""),
      Op("fclose_w", <<>>)>>

print_realtime_stats_ops ==
    <<Op("lock", STATS_MUTEX), Op("print", ""), Op("unlock", STATS_MUTEX)>>

update_performance_stats_ops ==
    <<Op("lock", STATS_MUTEX), Op("update", ""), Op("unlock", STATS_MUTEX)>>

\* rotate_log_file of advanced_monitor.c, past its NULL test
rotate_log_file_ops ==
    <<Op("rotate_fclose", ""), Op("rotate_shift", ""), Op("rotate_compress", ""),
      Op("rotate_reopen", "")>>

\* one iteration of stats_thread_func
stats_thread_func_ops ==
    IF prog = "advanced_monitor"
    THEN <<Op("sleep", "")>> \o update_performance_stats_ops \o <<Op("stat_log", "")>>
            \o save_stats_to_file_ops
    ELSE <<Op("sleep", ""), Op("if_running", "")>> \o save_stats_ops

find_watch_by_wd_ops ==
    <<Op("lock", WM_MUTEX), Op("find", ""), Op("unlock", WM_MUTEX)>>

\* add_watch_dynamic with room in the array
add_watch_dynamic_ops ==
    <<Op("lock", WM_MUTEX), Op("reg_write", "entries"), Op("unlock", WM_MUTEX)>>
        \o log_event_ops("[WATCH] Added")

HASH_MUTEX == "hash_mutex"

\* has_file_changed scans the cache and then hashes the file; check_file_changed
\* hashes first; both between the lock and the unlock of hash_mutex
confirm_change_ops ==
    IF prog = "advanced_monitor"
    THEN <<Op("lock", HASH_MUTEX), Op("cache_find", ""), Op("hash", ""),
           Op("cache_commit", ""), Op("unlock", HASH_MUTEX)>>
    ELSE <<Op("lock", HASH_MUTEX), Op("hash", ""), Op("cache_find", ""),
           Op("cache_commit", ""), Op("unlock", HASH_MUTEX)>>

\* one event of the main loop: read, resolve the watch, handle; kind "mkdir"
\* is a directory made under a watched one in recursive mode, kind "modify" a
\* write to a file
handle_event_ops(kind) ==
    <<Op("read", "")>> \o
    (IF prog = "monitor" /\ mode = "enhanced"
     THEN find_watch_by_wd_ops \o <<Op("use_entry", ""), Op("count", "total_events")>>
            \o log_event_ops("event")
            \o (IF kind = "mkdir" THEN add_watch_dynamic_ops ELSE <<>>)
     ELSE IF prog = "monitor"
     THEN <<Op("reg_read", "watch_descriptors"), Op("count", "total_events")>>
            \o (IF kind = "modify" /\ mode = "advanced" THEN confirm_change_ops ELSE <<>>)
            \o log_event_ops("event")
     ELSE <<Op("reg_read", "watch_descriptors")>>
            \o (IF kind = "modify" THEN confirm_change_ops ELSE <<>>)
            \o log_event_ops("event"))

cleanup_and_exit_ops ==
    IF prog = "advanced_monitor"
    THEN log_event_ops("[STOP] Program terminating") \o save_stats_to_file_ops
            \o <<Op("cancel", "stats"), Op("reg_read", "watch_descriptors"),
                 Op("fclose_log", ""), Op("exit", "")>>
    ELSE <<Op("stop", "")>>
            \o (IF mode = "enhanced"
                THEN <<Op("lock", WM_MUTEX), Op("reg_read", "entries"),
                       Op("unlock", WM_MUTEX),
                       Op("lock", WM_MUTEX), Op("reg_free", ""), Op("unlock", WM_MUTEX)>>
                ELSE <<Op("reg_read", "watch_descriptors")>>)
            \o <<Op("fclose_log", "")>> \o save_stats_ops
            \o log_event_ops("[STOP] Monitor terminated gracefully")
            \o <<Op("exit", "")>>

signal_handler_ops(sig) ==
    IF prog = "advanced_monitor"
    THEN IF sig = "SIGUSR1" THEN print_realtime_stats_ops
         ELSE save_stats_to_file_ops \o cleanup_and_exit_ops
    ELSE IF sig = "SIGUSR1" THEN <<Op("update", ""), Op("print", "")>>
         ELSE <<Op("stop", "")>> \o save_stats_ops \o cleanup_and_exit_ops

\* what a step works on
MkW == [th |-> threads, mx |-> mutexes, L |-> MkL, st |-> stats, run |-> running,
        pc |-> pc]

\* a read or write of the registry by thread t: remembered when t does not
\* hold the registry's mutex (basic and advanced mode have no such mutex)
RegAccess(W, t, what) ==
    IF prog = "monitor" /\ mode = "enhanced" /\ W.mx[WM_MUTEX] = t THEN W
    ELSE [W EXCEPT !.L.h.unlocked = @ \cup {<<t, what>>}]

\* the text of the snapshot is handed to the write that follows
SetDoc(code, doc) ==
    [i \in 1..Len(code) |->
        IF i = MinOrZero({j \in 1..Len(code) : code[j].op = "fclose_w"})
        THEN Op("fclose_w", doc) ELSE code[i]]

\* write(fd, doc) at offset 0 of the file as it is now
WriteAtStart(bytes, doc) == doc \o SubSeq(bytes, Len(doc) + 1, Len(bytes))

\* thread t executes step o; o is already off t's list
Exec(W, t, o) ==
    CASE o.op = "lock" -> [W EXCEPT !.mx[o.arg] = t]
      [] o.op = "unlock" -> [W EXCEPT !.mx[o.arg] = "none"]
      [] o.op = "fprintf" ->
            [W EXCEPT !.L = [(IF prog = "monitor"
                              THEN log_event_monitor(W.L, o.arg, 1, MaxNest)
                              ELSE log_event_adv(W.L, o.arg, 1))
                             EXCEPT !.h.appended =
                                IF o.arg = "event" /\ W.L.log_file # "null"
                                THEN @ \cup {Stamp(W.L, o.arg, 1)} ELSE @]]
      [] o.op = "count" ->
            IF o.arg = "events_processed"
            THEN [W EXCEPT !.st.events_processed = @ + 1]
            ELSE [W EXCEPT !.st.total_events = @ + 1]
      [] o.op = "snapshot" ->
            IF o.arg = "events_processed"
            THEN [W EXCEPT !.th[t] = SetDoc(@, StatsDoc(W.st.events_processed))]
            ELSE RegAccess([W EXCEPT !.th[t] = SetDoc(@, StatsDoc(W.st.total_events)),
                                     !.L.h.late_save =
                                        @ \/ (t = "stats" /\ W.L.h.handling[t] = {}
                                                /\ ~W.run)],
                           t, "count")
      [] o.op = "cancel" -> [W EXCEPT !.L.h.cancelled = TRUE]
      [] o.op = "fopen_w" -> [W EXCEPT !.L.d.stats_doc = [exists |-> TRUE, bytes |-> <<>>]]
      [] o.op = "fclose_w" ->
            [W EXCEPT !.L.d.stats_doc.bytes = WriteAtStart(@, o.arg)]
      [] o.op = "print" -> IF prog = "monitor" THEN RegAccess(W, t, "count") ELSE W
      [] o.op = "stat_log" ->
            IF W.L.d.log.ino # 0 /\ W.L.d.log.size \div MB > MAX_LOG_SIZE_MB
            THEN [W EXCEPT !.th[t] =
                    log_event_ops("[WARN] Log file size limit reached. Rotating...")
                        \o rotate_log_file_ops \o @]
            ELSE W
      [] o.op = "rotate_fclose" ->
            IF W.L.log_file = "null"
            THEN [W EXCEPT !.th[t] = SubSeq(@, 4, Len(@))]
            ELSE [W EXCEPT !.L = rotate_fclose(@)]
      [] o.op = "rotate_shift" ->
            [W EXCEPT !.L = rotate_rename(shift_generations(@, MAX_LOG_FILES - 1))]
      [] o.op = "rotate_compress" -> [W EXCEPT !.L = rotate_compress(@)]
      [] o.op = "rotate_reopen" ->
            IF W.L.io.fopen_ok
            THEN [W EXCEPT !.L = fopen_log(@),
                           !.th[t] = log_event_ops("Log file rotated successfully") \o @]
            ELSE [W EXCEPT !.L = fopen_log(@)]
      [] o.op = "sleep_eintr" -> [W EXCEPT !.L.h.cut_short = TRUE]
      [] o.op = "if_running" ->
            IF W.run THEN W
            ELSE [W EXCEPT !.th[t] = <<>>, !.L.h.stats_alive = FALSE]
      [] o.op = "stop" -> [W EXCEPT !.run = FALSE]
      [] o.op = "fclose_log" ->
            [W EXCEPT !.L.log_file = IF @ = "null" THEN "null"
                                     ELSE IF prog = "monitor" THEN "null" ELSE "closed"]
      [] o.op = "exit" ->
            [W EXCEPT !.pc = "exited", !.th = [u \in ThreadNames |-> <<>>],
                      !.L.h.handling = [u \in ThreadNames |-> {}]]
      [] o.op = "sigreturn" -> [W EXCEPT !.L.h.handling[t] = @ \ {o.arg}]
      [] o.op = "find" ->
            RegAccess([W EXCEPT !.L.h.holding = @ \cup {t},
                                !.L.h.stale = @ \ {t}], t, "entries")
      [] o.op = "use_entry" ->
            RegAccess([W EXCEPT !.L.h.holding = @ \ {t},
                                !.L.h.used_stale = @ \/ t \in W.L.h.stale], t, "entry")
      [] o.op = "reg_free" ->
            RegAccess([W EXCEPT !.L.h.stale = @ \cup (W.L.h.holding \ {t})], t, "entries")
      [] o.op \in {"reg_read", "reg_write"} -> RegAccess(W, t, o.arg)
      [] OTHER -> W

ThreadCommit(W) ==
    /\ threads' = W.th
    /\ mutexes' = W.mx
    /\ log_file' = W.L.log_file
    /\ disk' = W.L.d
    /\ hist' = W.L.h
    /\ stats' = W.st
    /\ running' = W.run
    /\ pc' = W.pc
    /\ UNCHANGED <<Config, max_file_size_mb, watch_descriptors, watch_paths,
                   watch_count, watch_manager, file_hashes, hash_count,
                   hash_capacity, log_out, fs_dirs, files, k_watch, k_next_wd,
                   k_nwatches, k_next_ino, queue, ops, issued, seen, reg_ok, asked,
                   reported, last, enable_compression, io>>

\* thread t has a step to take and is not waiting for a mutex
Runnable(t) ==
    /\ pc = "running"
    /\ threads[t] # <<>>
    /\ Head(threads[t]).op = "lock" => mutexes[Head(threads[t]).arg] = "none"

\* the calls at which a pending pthread_cancel takes effect
CancellationPoints == {"sleep", "sleep_eintr", "fopen_w", "fclose_w", "fprintf",
                       "stat_log", "print"}

\* the timer thread has been cancelled and is at a cancellation point
Cancelled(t) ==
    /\ t = "stats"
    /\ hist.cancelled
    /\ hist.handling[t] = {}
    /\ Head(threads[t]).op \in CancellationPoints

\* thread t executes its next step, or ends at it when cancelled
Step(t) ==
    /\ Runnable(t)
    /\ ThreadCommit(IF Cancelled(t)
                    THEN [MkW EXCEPT !.th[t] = <<>>, !.L.h.stats_alive = FALSE]
                    ELSE Exec([MkW EXCEPT !.th[t] = Tail(@)], t, Head(threads[t])))

\* the main thread goes round its event loop
MainLoop ==
    /\ pc = "running"
    /\ threads["main"] = <<>>
    /\ hist.events < MaxEvents
    /\ prog = "monitor" => running
    /\ \E kind \in {"file", "mkdir", "modify"} :
         ThreadCommit([MkW EXCEPT !.th["main"] = handle_event_ops(kind),
                                  !.L.h.events = @ + 1])

\* the timer thread goes round its loop
StatsLoop ==
    /\ pc = "running"
    /\ threads["stats"] = <<>>
    /\ hist.stats_alive
    /\ ~hist.cancelled
    /\ hist.ticks < MaxTicks
    /\ prog = "monitor" => running
    /\ ThreadCommit([MkW EXCEPT !.th["stats"] = stats_thread_func_ops,
                                !.L.h.ticks = @ + 1])

\* a signal is delivered to a thread that does not block it: the handler runs
\* on top of what the thread was doing, and a sleep() it interrupts returns
\* when the handler does
Signal ==
    \E sig \in {"SIGINT", "SIGUSR1"}, t \in ThreadNames :
      /\ pc = "running"
      /\ hist.signals < MaxSignals
      /\ sig \notin hist.handling[t]
      /\ t = "stats" => hist.stats_alive
      /\ ThreadCommit(
            [MkW EXCEPT !.th[t] = signal_handler_ops(sig) \o <<Op("sigreturn", sig)>>
                                    \o (IF @ # <<>> /\ Head(@).op = "sleep"
                                        THEN <<Op("sleep_eintr", "")>> \o Tail(@)
                                        ELSE @),
                        !.L.h.signals = @ + 1,
                        !.L.h.handling[t] = @ \cup {sig},
                        !.L.h.sigint = @ \/ sig = "SIGINT"])

InitThreads ==
    /\ \E pm \in ProgModes : prog = pm[1] /\ mode = pm[2]
    /\ recursive_mode = TRUE
    /\ file_extensions = <<>>
    /\ enable_checksum = TRUE
    /\ patterns = <<>>
    /\ nfill = 0
    /\ fs_dirs = [n \in DirNames |-> 0]
    /\ files = [f \in FileNames |-> NoFile]
    /\ k_max_watches = 8192
    /\ pc = "running"
    /\ watch_descriptors = <<>>
    /\ watch_paths = <<>>
    /\ watch_count = 0
    /\ watch_manager = [entries |-> <<>>,
                        capacity |-> IF Enhanced THEN INITIAL_WATCH_CAPACITY ELSE 0,
                        count |-> 0]
    /\ stats = [ZeroStats EXCEPT !.total_events = 9, !.events_processed = 9]
    /\ file_hashes = <<>>
    /\ hash_count = 0
    /\ hash_capacity = 0
    /\ log_out = <<>>
    /\ max_file_size_mb = 100
    /\ InitKernel /\ InitHistory
    /\ enable_compression = FALSE
    /\ log_file = "open"
    /\ \E s0 \in {0, (MAX_LOG_SIZE_MB + 1) * MB} :
          disk = [FreshDisk EXCEPT !.log.size = s0]
    /\ io \in {NoIoFaults, [NoIoFaults EXCEPT !.closed_write = "crash"]}
    /\ running = TRUE
    /\ threads = [t \in ThreadNames |-> <<>>]
    /\ mutexes = [m \in MutexNames |-> "none"]
    /\ hist = NoHist

NextThreads == MainLoop \/ StatsLoop \/ Signal \/ Step("main") \/ Step("stats")

SpecThreads == InitThreads /\ [][NextThreads]_vars

\* weak fairness of Step(t), with its enabling condition written out
FairStep(t) == []<>(~Runnable(t)) \/ []<><<Step(t)>>_vars

\* the scheduler lets every thread that can take a step take one
SpecThreadsFair ==
    /\ SpecThreads
    /\ FairStep("main") /\ FairStep("stats")
    /\ WF_vars(MainLoop) /\ WF_vars(StatsLoop)

(***************************************************************************)
\* resolve(h): the path the event loop finds for descriptor h, NoName for none
ResolveEntry(i) == IF i = 0 THEN NoName ELSE watch_manager.entries[i].path

ResolveSlot(j) == IF j = 0 THEN NoName ELSE watch_paths[j]

Resolve(h) ==
    IF Enhanced THEN ResolveEntry(find_watch_by_wd(watch_manager, h))
    ELSE ResolveSlot(find_watch_path(watch_descriptors, watch_count, h))

\* the live entries of the registry in use
LiveHandle(i) == IF Enhanced THEN watch_manager.entries[i].wd ELSE watch_descriptors[i]

LivePath(i) == IF Enhanced THEN watch_manager.entries[i].path ELSE watch_paths[i]

\* the last step was a step of the program
ProgramStep == last.op \in {"install", "dispatch"}

\* the last step handled an event and asked the cache about a file
Confirmed == last.op = "dispatch" /\ last.conf.called

\* the digest the cache holds for a path, -1 when it holds none
DigestAt(i) == IF i = 0 THEN -1 ELSE file_hashes[i].hash

StoredDigest(path) == DigestAt(find_hash(file_hashes, hash_count, path))

Logged(tags) == \E i \in 1..Len(log_out) : log_out[i].tag \in tags

CapTags == {"[ERROR] Maximum watch limit reached (basic mode)",
            "[WARN] Maximum number of watches reached."}

ModifiedTags == {"Modified", "Modified (checksum changed)"}

\* the number of lines of the last step with one of the tags, about the path
CountLines(tags, path) ==
    Cardinality({i \in 1..Len(log_out) : log_out[i].tag \in tags /\ log_out[i].path = path})

\* the last step handled an event named f that the extension filter lets through
DispatchedFile(f) ==
    /\ last.op = "dispatch"
    /\ last.event.name = f
    /\ should_monitor_file(f)

RECURSIVE Pow(_, _)
Pow(b, n) == IF n = 0 THEN 1 ELSE b * Pow(b, n - 1)

(***************************************************************************)
(* The registry.                                                           *)
(***************************************************************************)
\* C1: in every mode, a handle that a successful register(path) returned
\* resolves to exactly that path from then on, whatever is registered later
\* (nothing is ever unregistered).
C1_ResolveReturnsRegisteredPath ==
    \A p \in issued : Resolve(p[1]) = p[2]

\* C2: the registry's count is the number of register calls that succeeded
\* (no entry is ever unregistered while the monitor runs), and a program step
\* in which no register call succeeded leaves count as it was.
C2_CountIsSuccessfulRegisters ==
    /\ RegCount = reg_ok
    /\ (ProgramStep /\ reg_ok = last.pre_reg_ok) => RegCount = last.pre_count

\* a register call has failed in the kernel while two entries are registered
C2_Witness ==
    /\ RegCount = 2
    /\ last.op = "dispatch"
    /\ reg_ok = last.pre_reg_ok
    /\ Logged({"[ERROR] Failed to add watch"})

\* C3: in enhanced mode capacity never decreases, a change multiplies it by
\* WATCH_GROWTH_FACTOR, it changes only when count had reached it, each change
\* bumps memory_reallocations by one; so capacity is
\* INITIAL_WATCH_CAPACITY * WATCH_GROWTH_FACTOR^memory_reallocations and
\* count never exceeds it.
C3_CapacityDoubles ==
    Enhanced =>
      /\ watch_manager.capacity
           = INITIAL_WATCH_CAPACITY * Pow(WATCH_GROWTH_FACTOR, stats.memory_reallocations)
      /\ watch_manager.count <= watch_manager.capacity
      /\ ProgramStep =>
           /\ watch_manager.capacity >= last.pre_capacity
           /\ IF watch_manager.capacity # last.pre_capacity
              THEN /\ watch_manager.capacity = last.pre_capacity * WATCH_GROWTH_FACTOR
                   /\ stats.memory_reallocations = last.pre_stats.memory_reallocations + 1
                   /\ watch_manager.count >= last.pre_capacity
                   /\ last.op = "dispatch" => last.pre_count = last.pre_capacity
              ELSE stats.memory_reallocations = last.pre_stats.memory_reallocations

\* the registry has grown once and holds one entry more than it could before
C3_Witness ==
    /\ Enhanced
    /\ stats.memory_reallocations = 1
    /\ watch_manager.capacity = INITIAL_WATCH_CAPACITY * WATCH_GROWTH_FACTOR
    /\ watch_manager.count = INITIAL_WATCH_CAPACITY + 1

\* C4: no two live entries of the registry share a watch handle, and no two
\* share a path.
C4_UniqueHandlesAndPaths ==
    \A i, j \in 1..RegCount :
        i # j => LiveHandle(i) # LiveHandle(j) /\ LivePath(i) # LivePath(j)

\* C5: when the event that reports a watch as invalidated (IN_IGNORED) has
\* been handled, the entry for its handle is gone and count is one less; and
\* once every queued event is handled, each entry is a watch the kernel holds.
C5_InvalidatedWatchIsRemoved ==
    /\ (last.op = "dispatch" /\ "IN_IGNORED" \in last.event.mask) =>
          /\ RegCount = last.pre_count - 1
          /\ Resolve(last.event.wd) = NoName
    /\ queue = <<>> =>
          \A i \in 1..RegCount : \E ino \in InoIds : k_watch[ino] = LiveHandle(i)

C7_FirstTrueThenFalse ==
    (Confirmed /\ enable_checksum) =>
      /\ ~last.pre_seen.called => last.conf.ret
      /\ (last.pre_seen.called /\ ~last.pre_seen.changed) => ~last.conf.ret

\* C7 as the code has it: the first call returns true; a call with no change
\* of the bytes since the call before returns false when the file could be
\* opened at both calls.
C7_FalseWhenOpenedTwice ==
    (Confirmed /\ enable_checksum) =>
      /\ ~last.pre_seen.called => last.conf.ret
      /\ (/\ last.pre_seen.called
          /\ ~last.pre_seen.changed
          /\ last.pre_seen.opened
          /\ CanOpen(last.conf.path)) => ~last.conf.ret

\* a second call on an unchanged file that could be opened both times
C7_Witness ==
    /\ Confirmed
    /\ enable_checksum
    /\ last.pre_seen.called
    /\ ~last.pre_seen.changed
    /\ last.pre_seen.opened
    /\ CanOpen(last.conf.path)
    /\ ~last.conf.ret

\* C8 as stated: when the bytes of a file differ from those at the call
\* before, confirm_change returns true and the stored digest becomes the new
\* one; when the bytes were not changed since the call before, it returns
\* false and leaves the cache untouched.
C8_TrueOncePerChange ==
    (Confirmed /\ enable_checksum /\ last.pre_seen.called) =>
      /\ (/\ files[FileOf(last.conf.path)].exists
          /\ last.pre_seen.bytes # files[FileOf(last.conf.path)].bytes) =>
            /\ last.conf.ret
            /\ StoredDigest(last.conf.path) = SHA256(files[FileOf(last.conf.path)].bytes)
      /\ ~last.pre_seen.changed =>
            /\ ~last.conf.ret
            /\ file_hashes = last.pre_fh

\* C8 as the code has it: the same, when the file can be opened at this call
\* and could be at the call before; a call at which it cannot be opened
\* returns true and leaves the stored digest as it was.
C8_TrueOncePerChangeWhenOpened ==
    (Confirmed /\ enable_checksum /\ last.pre_seen.called) =>
      /\ (last.pre_seen.opened /\ CanOpen(last.conf.path)) =>
            IF last.pre_seen.bytes # files[FileOf(last.conf.path)].bytes
            THEN /\ last.conf.ret
                 /\ StoredDigest(last.conf.path)
                      = SHA256(files[FileOf(last.conf.path)].bytes)
                 /\ hash_count = last.pre_hc
            ELSE /\ ~last.conf.ret
                 /\ file_hashes = last.pre_fh
      /\ ~CanOpen(last.conf.path) =>
            /\ last.conf.ret
            /\ file_hashes = last.pre_fh

\* a call on a file whose bytes differ from those hashed at the call before
C8_Witness ==
    /\ Confirmed
    /\ enable_checksum
    /\ last.pre_seen.called
    /\ last.pre_seen.opened
    /\ CanOpen(last.conf.path)
    /\ last.pre_seen.bytes # files[FileOf(last.conf.path)].bytes
    /\ last.conf.ret

\* C9: confirm_change returns true when the file cannot be opened, whether
\* or not the cache holds an entry for the path, and no cache entry is added,
\* removed or altered by that call.
C9_FailOpen ==
    (Confirmed /\ ~CanOpen(last.conf.path)) =>
      /\ last.conf.ret
      /\ file_hashes = last.pre_fh
      /\ hash_count = last.pre_hc

\* a call on a file that cannot be opened while the cache holds its digest
C9_Witness ==
    /\ Confirmed
    /\ enable_checksum
    /\ ~CanOpen(last.conf.path)
    /\ find_hash(file_hashes, hash_count, last.conf.path) # 0

\* C10: when a raw modify notification is handled, a Modified line is logged
\* if and only if confirm_change was asked and returned true; when it
\* returned false no counter of the statistics moves.
C10_ModifiedIffConfirmed ==
    (last.op = "dispatch" /\ "IN_MODIFY" \in last.event.mask) =>
      /\ Logged(ModifiedTags) <=> (last.conf.called /\ last.conf.ret)
      /\ (last.conf.called /\ ~last.conf.ret) => stats = last.pre_stats

(***************************************************************************)
(* End to end: a file is created and written.                              *)
(***************************************************************************)
\* C11, as stated: with the extension filter set and checksums enabled, the
\* Created notification of a file yields exactly one Created line, and a
\* modify notification of it yields one Modified line when the file's bytes
\* differ from those it held when it was created or last looked at, and none
\* when they are the same
C11_SameBytesNoModified ==
    \A f \in FileNames :
        (DispatchedFile(f) /\ enable_checksum /\ files[f].exists) =>
            /\ "IN_CREATE" \in last.event.mask =>
                    CountLines({"Created"}, JoinPath(RootPath, f)) = 1
            /\ "IN_MODIFY" \in last.event.mask =>
                    CountLines(ModifiedTags, JoinPath(RootPath, f)) =
                        IF files[f].bytes # last.pre_seen.base THEN 1 ELSE 0

\* C11, as the code has it: the Created notification yields exactly one Created
\* line; the first modify notification handled for a file yields one Modified
\* line whatever its bytes; after the cache has read the file, a modify
\* notification yields one Modified line when the bytes differ from those read
\* last, and none when they are the same, as long as the file can be opened
C11_SameBytesNoModifiedOnceCached ==
    \A f \in FileNames :
        (DispatchedFile(f) /\ enable_checksum /\ files[f].exists) =>
            /\ "IN_CREATE" \in last.event.mask =>
                    CountLines({"Created"}, JoinPath(RootPath, f)) = 1
            /\ "IN_MODIFY" \in last.event.mask =>
                    /\ CountLines(ModifiedTags, JoinPath(RootPath, f)) <= 1
                    /\ ~last.pre_seen.called =>
                            CountLines(ModifiedTags, JoinPath(RootPath, f)) = 1
                    /\ (/\ last.pre_seen.called
                        /\ last.pre_seen.opened
                        /\ CanOpen(JoinPath(RootPath, f))) =>
                            CountLines(ModifiedTags, JoinPath(RootPath, f)) =
                                IF files[f].bytes # last.pre_seen.bytes THEN 1 ELSE 0

\* a write of the bytes the cache has read before is swallowed
C11_Witness ==
    \E f \in FileNames :
        /\ DispatchedFile(f) /\ enable_checksum /\ files[f].exists
        /\ "IN_MODIFY" \in last.event.mask
        /\ last.pre_seen.called /\ last.pre_seen.opened
        /\ CanOpen(JoinPath(RootPath, f))
        /\ files[f].bytes = last.pre_seen.bytes
        /\ files[f].bytes # <<>>
        /\ CountLines(ModifiedTags, JoinPath(RootPath, f)) = 0

(***************************************************************************)
(* The path filter.                                                        *)
(***************************************************************************)
\* the extension layer, from the definition of the last '.'
ExtensionLayer(filename) ==
    \/ Len(file_extensions) = 0
    \/ \E p \in 1..Len(filename) :
          /\ filename[p] = "."
          /\ \A q \in (p + 1)..Len(filename) : filename[q] # "."
          /\ \E i \in 1..Len(file_extensions) :
                SubSeq(filename, p + 1, Len(filename)) = file_extensions[i]

\* the verdict of the rule layer (monitor.c has no rules)
RuleLayer(filename) ==
    IF prog = "advanced_monitor" THEN match_patterns(MkR, filename).ret ELSE TRUE

\* C12: should_monitor(filename) is true exactly when the extension layer and
\* the rule layer both pass; with no rules and an empty extension list every
\* filename is accepted; with a non-empty list a filename without '.' is
\* rejected
C12_BothLayers ==
    asked.called =>
        /\ asked.ret <=> (ExtensionLayer(asked.filename) /\ RuleLayer(asked.filename))
        /\ (Len(patterns) = 0 /\ Len(file_extensions) = 0) => asked.ret
        /\ (/\ Len(file_extensions) > 0
            /\ \A p \in 1..Len(asked.filename) : asked.filename[p] # ".") => ~asked.ret

\* a name with two dots is accepted on its last extension, under a list
\* that also holds its first
C12_Witness ==
    /\ asked.called /\ asked.ret
    /\ asked.filename = <<"n", ".", "n", ".", "t">>
    /\ Len(file_extensions) = 2
    /\ Len(patterns) > 0

\* rule i of the list matches the filename and has the action
RuleHits(i, filename, action) ==
    /\ patterns[i].action = action
    /\ Regexec(patterns[i].pattern, filename)

\* C13: rules are evaluated in registration order and a matching exclude rule
\* rejects at once: a filename that matches an exclude rule with no matching
\* include rule before it is rejected, whatever include rules follow
C13_ExcludeBeforeInclude ==
    asked.called =>
        \A i \in 1..Len(patterns) :
            (/\ RuleHits(i, asked.filename, 0)
             /\ \A j \in 1..(i - 1) : ~RuleHits(j, asked.filename, 1)) => ~asked.ret

\* C14: a matching alert rule logs a notice and evaluation goes on: the verdict
\* of the rules is that of the first matching rule that is not an alert rule
\* (accept when there is none), and every alert rule that matches before it
\* has logged one notice
C14_AlertFallsThrough ==
    (asked.called /\ ExtensionLayer(asked.filename)) =>
        LET first == MinOrZero({i \in 1..Len(patterns) :
                                  \/ RuleHits(i, asked.filename, 0)
                                  \/ RuleHits(i, asked.filename, 1)})
            alerts == {i \in 1..Len(patterns) :
                          /\ RuleHits(i, asked.filename, 2)
                          /\ first = 0 \/ i < first}
        IN  /\ asked.ret <=> (first = 0 \/ patterns[first].action = 1)
            /\ CountLines({"ALERT: Pattern matched"}, asked.filename) = Cardinality(alerts)

\* the name ends with the suffix
HasSuffix(name, suffix) ==
    /\ Len(name) >= Len(suffix)
    /\ SubSeq(name, Len(name) - Len(suffix) + 1, Len(name)) = suffix

\* the running program's own log, config and stats file, and the names with
\* a temporary or swap suffix
Reserved(name) ==
    \/ name \in (IF prog = "advanced_monitor"
                 THEN {ADV_LOG_FILE, ADV_CONFIG_FILE, ADV_STATS_FILE}
                 ELSE {MON_LOG_FILE, MON_CONFIG_FILE, MON_STATS_FILE})
    \/ HasSuffix(name, DOT_TMP)
    \/ HasSuffix(name, DOT_SWP)

\* the last step handled an event and left no trace: no line, no call of the
\* cache, the cache and every counter as before
NoTrace ==
    /\ log_out = <<>>
    /\ ~last.conf.called
    /\ file_hashes = last.pre_fh
    /\ hash_count = last.pre_hc
    /\ stats = last.pre_stats

\* C15: in every mode, an event named as the monitor's own log, config or
\* stats file, or with a temporary or swap suffix, yields no line (no domain
\* event, no notice of a rule), no call of the cache and no counter change
C15_SelfExclusion ==
    (last.op = "dispatch" /\ Reserved(last.event.name)) => NoTrace

\* C16: an event that the path filter rejects changes nothing: no line is
\* logged, the cache is neither read nor written, no event counter moves
C16_RejectedLeavesNoTrace ==
    (/\ last.op = "dispatch"
     /\ Len(last.event.name) > 0
     /\ ~should_monitor(MkR, last.event.name).ret) => NoTrace

(***************************************************************************)
(* Directories made while the monitor runs.                                *)
(***************************************************************************)
\* the last step handled the Created event of the directory r/n
DirCreated(n) ==
    /\ last.op = "dispatch"
    /\ last.event.name = n
    /\ {"IN_CREATE", "IN_ISDIR"} \subseteq last.event.mask

Registered(path) == \E i \in 1..RegCount : LivePath(i) = path

FailTags == {"[ERROR] Failed to add watch", "[ERROR] Cannot stat path",
             "[ERROR] Cannot open directory", "[ERROR] Failed to open directory",
             "[ERROR] Path is not a directory", "[ERROR] Failed to check path status",
             "[ERROR] Specified path is not a directory.",
             "[ERROR] Failed to expand watch manager capacity"} \cup CapTags

\* the Created line of a file in a directory below the root follows the
\* Created line of that directory
NestedFollows ==
    \A i \in 1..Len(log_out) :
        (/\ last.op = "dispatch"
         /\ "IN_ISDIR" \notin last.event.mask
         /\ log_out[i].tag = "Created"
         /\ Len(log_out[i].path) > Len(RootPath) + Len(last.event.name) + 2)
        => SubSeq(log_out[i].path, 1, Len(log_out[i].path) - Len(last.event.name) - 1)
               \in reported

\* without recursive mode the dispatcher adds no watch
NoWatchWithoutRecursion ==
    (last.op = "dispatch" /\ ~recursive_mode) =>
        /\ RegCount = last.pre_count
        /\ reg_ok = last.pre_reg_ok
        /\ ~Logged({"[WATCH] Added", "[WATCH] Watch added"})

\* C17, as stated: with recursive mode on, handling the Created event of a
\* directory registers the directory within that step; the Created line of a
\* file made in it later follows the directory's; with recursive mode off the
\* dispatcher adds no watch
C17_NewDirectoryRegistered ==
    /\ \A n \in DirNames :
          (DirCreated(n) /\ recursive_mode) => Registered(JoinPath(RootPath, n))
    /\ NestedFollows
    /\ NoWatchWithoutRecursion

\* C17, as the code has it: the Created event must pass the path filter; then
\* the Created line is logged first and the directory is registered within
\* the step, or the failure to register it is logged
C17_NewDirectoryRegisteredIfAccepted ==
    /\ \A n \in DirNames :
          (DirCreated(n) /\ recursive_mode /\ should_monitor(MkR, n).ret) =>
              /\ log_out # <<>>
              /\ log_out[1] = Line("Created", JoinPath(RootPath, n))
              /\ Registered(JoinPath(RootPath, n)) \/ Logged(FailTags)
    /\ NestedFollows
    /\ NoWatchWithoutRecursion

\* a file is reported from a directory that was made and registered while the
\* monitor ran
C17_Witness ==
    /\ recursive_mode
    /\ last.op = "dispatch"
    /\ last.event.mask = {"IN_CREATE"}
    /\ \E n \in DirNames :
          /\ Registered(JoinPath(RootPath, n))
          /\ JoinPath(RootPath, n) \in reported
          /\ Logged({"Created"})
          /\ log_out[1].path = JoinPath(JoinPath(RootPath, n), last.event.name)

(***************************************************************************)
(* Startup.                                                                *)
(***************************************************************************)
\* a failure to register the directory r/n is in the log of the last step
FailureLogged(n) ==
    \E i \in 1..Len(log_out) :
        log_out[i].tag \in FailTags /\ log_out[i].path = JoinPath(RootPath, n)

\* after startup every directory below the root is registered or its failure
\* is logged, and a directory that can be read is registered when the kernel
\* has room, whatever happened to the directories before it
DescendantsBestEffort ==
    (last.op = "install" /\ pc = "running" /\ recursive_mode) =>
        \A n \in DirNames :
            /\ Registered(JoinPath(RootPath, n)) \/ FailureLogged(n)
            /\ (/\ JoinPath(RootPath, n) \notin faults.denied
                /\ k_max_watches > Cardinality(DirNames))
                    => Registered(JoinPath(RootPath, n))

\* C18, as stated: install(root) fails, and the process exits at startup,
\* exactly when the root is not an existing directory or cannot be registered;
\* a failure to register a descendant is logged, does not change the result
\* and does not keep later siblings from being registered
C18_FailsIffRootFails ==
    /\ last.op = "install" =>
          (pc = "exited" <=> (faults.root # "dir" \/ ~Registered(RootPath)))
    /\ DescendantsBestEffort

\* C18, as the code has it: in recursive mode install(root) also fails when
\* the root has been registered and opendir on it fails
C18_FailsIffRootFailsOrUnreadable ==
    /\ last.op = "install" =>
          (pc = "exited" <=> \/ faults.root # "dir"
                             \/ ~Registered(RootPath)
                             \/ recursive_mode /\ ~faults.opendir_ok)
    /\ DescendantsBestEffort

\* startup succeeds although the first directory could not be registered,
\* and the second one is registered
C18_Witness ==
    /\ last.op = "install" /\ pc = "running" /\ recursive_mode
    /\ ~Registered(JoinPath(RootPath, <<"a">>))
    /\ FailureLogged(<<"a">>)
    /\ Registered(JoinPath(RootPath, <<"b">>))

(***************************************************************************)
(* Queue overflow.                                                         *)
(***************************************************************************)
\* C19: handling the kernel's queue-overflow marker always logs an entry of
\* its own: it is not dropped without a line and not reported only by the
\* warning for an unknown watch descriptor
C19_OverflowSurfaced ==
    (last.op = "dispatch" /\ "IN_Q_OVERFLOW" \in last.event.mask) =>
        \E i \in 1..Len(log_out) :
            log_out[i].tag # "[WARN] Event from unknown watch descriptor"

(***************************************************************************)
(* Flags and domain events.                                                *)
(***************************************************************************)
\* the line a handler logs for a flag
FlagTags(flag) ==
    CASE flag = "IN_CREATE" -> {"Created"}
      [] flag = "IN_DELETE" -> {"Deleted"}
      [] flag = "IN_MODIFY" -> ModifiedTags
      [] flag = "IN_MOVED_FROM" -> {"Moved from"}
      [] flag = "IN_MOVED_TO" -> {"Moved to"}
      [] flag = "IN_ATTRIB" -> {"Attribute changed"}
      [] flag = "IN_OPEN" -> {"Opened"}
      [] flag = "IN_CLOSE_WRITE" -> {"Closed"}

\* C20: for an event that passes the filter, the domain events logged are,
\* in the order create, delete, modify, moved-from, moved-to, attribute
\* change, open, close-after-write, one for each of these flags that is set
\* (modify, in the modes that ask the cache, only when it confirms the
\* change), and no others
C20_OneEventPerFlag ==
    (/\ last.op = "dispatch"
     /\ Len(last.event.name) > 0
     /\ ~Reserved(last.event.name)
     /\ should_monitor(MkR, last.event.name).ret) =>
        LET expected == SelectSeq(FlagOrder,
                            LAMBDA f : /\ f \in last.event.mask
                                       /\ (f = "IN_MODIFY" /\ last.conf.called)
                                              => last.conf.ret)
            events == SelectSeq(log_out,
                            LAMBDA l : \E f \in 1..Len(FlagOrder) :
                                          l.tag \in FlagTags(FlagOrder[f]))
        IN  /\ Len(events) = Len(expected)
            /\ \A i \in 1..Len(events) :
                  /\ events[i].tag \in FlagTags(expected[i])
                  /\ events[i].path = JoinPath(RootPath, last.event.name)

(***************************************************************************)
(* The log: rotation and retention.                                        *)
(***************************************************************************)
\* C21: an append that takes the log past the size ceiling triggers exactly
\* one rotation; the rotation runs once and terminates, and the lines it
\* appends itself start no further rotation, whatever rename and reopen
\* return.
C21_OneRotationPerCrossing ==
    hist.crossed => /\ hist.rotations = hist.pre_rot + 1
                    /\ ~Dead(MkL)

\* what generation k holds, compressed or not: the inode it came from and
\* its lines (inode 0: no generation k)
Held(d, k) ==
    IF d.gz[k].ino # 0 THEN [origin |-> Origin(d.gz[k]), lines |-> d.gz[k].lines]
    ELSE [origin |-> Origin(d.gen[k]), lines |-> d.gen[k].lines]

\* a step in which rotate_log_file ran once, with no file operation failing
OneRotation ==
    /\ prog \in {"monitor", "advanced_monitor"}
    /\ io = NoIoFaults
    /\ hist'.rotations = hist.rotations + 1
    /\ ~hist'.crashed /\ ~hist'.overflow

\* C22: a rotation moves the current log to generation 0 and every existing
\* generation k, 0 <= k < N-1, to generation k+1 with its content intact,
\* discarding only the generation that was at N-1; with compression the
\* generations are stored compressed and none that survives is overwritten
\* by a newer one.
C22_RotationShiftsGenerations ==
    [][OneRotation =>
        /\ Held(disk', 0).origin = disk.log.ino
        /\ enable_compression => disk'.gz[0].ino # 0
        /\ \A k \in 0..(MAX_LOG_FILES - 2) :
              Held(disk, k).origin # 0 => Held(disk', k + 1) = Held(disk, k)
        /\ hist'.overwritten = hist.overwritten]_vars

\* the rotated files on disk
GenerationFiles ==
    {<<"plain", k>> : k \in {i \in Generations : disk.gen[i].ino # 0}}
        \cup {<<"gz", k>> : k \in {i \in Generations : disk.gz[i].ino # 0}}
        \cup {<<"old", k>> : k \in {i \in {0} : disk.old.ino # 0}}

\* the inodes whose content is still in a rotated file
Retained ==
    {Origin(disk.gen[k]) : k \in Generations} \cup {Origin(disk.gz[k]) : k \in Generations}
        \cup {Origin(disk.old)}

\* C23: after any number of rotations at most N generation files exist, and
\* once more than N logs have been rotated the oldest of them is no longer
\* on disk and went by being deleted, not by being overwritten in place.
C23_BoundedRetention ==
    /\ Cardinality(GenerationFiles) <= MAX_LOG_FILES
    /\ Cardinality(hist.rotated) > MAX_LOG_FILES =>
          \A o \in hist.rotated :
             (\A q \in hist.rotated : o <= q) =>
                 /\ o \notin Retained
                 /\ o \in hist.unlinked
                 /\ o \notin hist.overwritten

\* C29: for each domain event a handler emits, the steps come in the order
\* classification, cache consultation, log append, counter increment: no
\* counter is incremented before the first log line of the event, and the
\* cache is consulted immediately before the line it gates.
C29_SideEffectOrder ==
    (last.op = "dispatch" /\ \E i \in 1..Len(last.steps) : last.steps[i] = "log") =>
        /\ \A i \in 1..Len(last.steps) :
              last.steps[i] = "count" =>
                  \E j \in 1..(i - 1) : last.steps[j] = "log"
        /\ \A i \in 1..Len(last.steps) :
              (last.steps[i] = "cache" /\ last.conf.ret) =>
                  (i < Len(last.steps) /\ last.steps[i + 1] = "log")

\* C28: after any sequence of confirm_change calls, calls on files that
\* cannot be opened included, the cache holds at most one entry per path and
\* hash_count <= hash_capacity.
C28_OneEntryPerPath ==
    /\ hash_count <= hash_capacity
    /\ \A i, j \in 1..hash_count :
          i # j => file_hashes[i].filepath # file_hashes[j].filepath

\* a call that leaves the cache with the digests of two paths
C28_Witness ==
    /\ Confirmed
    /\ enable_checksum
    /\ hash_count >= 2

(***************************************************************************)
(* Threads: the log, the statistics document, signals and the registry     *)
(***************************************************************************)
LinesOf(f) == {f.lines[i] : i \in 1..Len(f.lines)}

\* the lines held by the current log and by every rotated file
LinesOnDisk ==
    LinesOf(disk.log) \cup LinesOf(disk.old)
        \cup UNION {LinesOf(disk.gen[k]) : k \in Generations}
        \cup UNION {LinesOf(disk.gz[k]) : k \in Generations}

\* C24: appends and rotation exclude one another: no log_event of one thread
\* writes through the stream while rotate_log_file of another thread has it
\* closed, and every appended event line is in the current log or in a
\* retained generation (as long as retention has discarded nothing and no
\* shutdown has closed the log).
C24_AppendsSurviveRotation ==
    ~hist.sigint =>
        /\ ~hist.crashed
        /\ hist.appended \cap hist.lost = {}
        /\ Cardinality(hist.rotated) < MAX_LOG_FILES =>
                hist.appended \subseteq LinesOnDisk

\* C25: whoever reads the persisted statistics document sees one complete
\* snapshot: the file is never empty or truncated and never holds text of two
\* writers (timer tick, signal handler, shutdown) at once.
C25_StatsDocumentIsOneSnapshot ==
    disk.stats_doc.exists => \E n \in 0..99 : disk.stats_doc.bytes = StatsDoc(n)

\* C26: from every reachable state, once SIGINT or SIGTERM is delivered the
\* process eventually exits: the shutdown path never waits forever.
C26_ShutdownTerminates == hist.sigint ~> (pc = "exited")

\* C27: a SIGUSR1 handler always completes and returns control to the code it
\* interrupted, and it does not move the timer thread's next tick: the
\* thread's sleep is never cut short.
C27_DumpReturnsAndKeepsTick ==
    /\ [](~hist.cut_short)
    /\ \A t \in ThreadNames :
          ("SIGUSR1" \in hist.handling[t]) ~> ("SIGUSR1" \notin hist.handling[t])

\* C30: in enhanced mode every read and write of the registry, the reads of
\* the statistics snapshot and the use of the entry a lookup returned
\* included, happens with the registry mutex held, and no thread uses an entry
\* it obtained before another thread's cleanup freed the array.
C30_RegistryUnderLock ==
    (prog = "monitor" /\ mode = "enhanced") =>
        (hist.unlocked = {} /\ ~hist.used_stale)

(***************************************************************************)
(* The dispatcher on events it cannot resolve, and the counters            *)
(***************************************************************************)
\* the event just handled names a watch descriptor the registry does not hold
Unresolved ==
    /\ last.op = "dispatch"
    /\ IF Enhanced THEN find_watch_by_wd(watch_manager, last.event.wd) = 0
       ELSE find_watch_path(watch_descriptors, watch_count, last.event.wd) = 0

\* C37: an event whose watch handle is not in the registry produces at most
\* a warning: no domain event is logged, the registry, the cache and the
\* counters are as before, and the dispatcher goes on with the batch.
C37_UnresolvedIsWarning ==
    Unresolved =>
        /\ \A i \in 1..Len(log_out) :
              log_out[i].tag = "[WARN] Event from unknown watch descriptor"
        /\ Len(log_out) <= 1
        /\ stats = last.pre_stats
        /\ file_hashes = last.pre_fh /\ hash_count = last.pre_hc
        /\ RegCount = last.pre_count
        /\ watch_manager.capacity = last.pre_capacity
        /\ pc = "running"

\* enhanced mode has logged the warning for such an event
C37_Witness ==
    /\ Unresolved
    /\ Enhanced
    /\ Len(log_out) = 1

\* event_count of the first n entries, summed
RECURSIVE SumEventCounts(_, _)
SumEventCounts(entries, n) ==
    IF n = 0 THEN 0 ELSE entries[n].event_count + SumEventCounts(entries, n - 1)

\* the entries in use
UsedEntries == {i \in 1..watch_manager.count : i <= Len(watch_manager.entries)}

\* C38: in enhanced mode, after any sequence of dispatched events,
\* total_events is the sum of event_count over the registry's entries,
\* max_events_per_path is the largest event_count, and most_active_path is
\* the path of an entry that has that count ("none" before the first
\* resolved event).
C38_CountersAgree ==
    Enhanced =>
        /\ stats.total_events = SumEventCounts(watch_manager.entries, watch_manager.count)
        /\ stats.max_events_per_path =
              MaxOrZero({watch_manager.entries[i].event_count : i \in UsedEntries})
        /\ IF stats.total_events = 0
           THEN stats.most_active_path = <<"n", "o", "n", "e">>
           ELSE \E i \in UsedEntries :
                   /\ watch_manager.entries[i].event_count = stats.max_events_per_path
                   /\ watch_manager.entries[i].path = stats.most_active_path

\* events of two watches have been counted, one watch more often than the other
C38_Witness ==
    /\ Enhanced
    /\ \E i, j \in UsedEntries :
          /\ watch_manager.entries[i].event_count >= 2
          /\ watch_manager.entries[j].event_count = 1

\* C32: for a file larger than max_file_size_mb a modify notification is
\* reported as Modified unconditionally: no digest is computed and the cache
\* is neither read nor written.
C32_LargeFileBypassesCache ==
    (/\ last.op = "dispatch"
     /\ prog = "advanced_monitor"
     /\ "IN_MODIFY" \in last.event.mask
     /\ Logged({"Large file detected"})) =>
        /\ Logged(ModifiedTags)
        /\ ~last.conf.called
        /\ file_hashes = last.pre_fh
        /\ hash_count = last.pre_hc

(***************************************************************************)
(* The log handle, the cache lock and the end of the run                   *)
(***************************************************************************)
\* C39: log_event never writes through a closed log handle: between the
\* fclose and the fopen of a rotation no line goes through the stale handle,
\* the "Compressed log file" line of compress_old_log included.
C39_NoWriteThroughClosedHandle == hist.lost = {} /\ ~hist.crashed

\* C31: confirm_change does not hold the cache lock while it reads and
\* hashes the file: no thread is about to hash with hash_mutex in its hands.
C31_HashOutsideLock ==
    \A t \in ThreadNames :
        (threads[t] # <<>> /\ Head(threads[t]).op = "hash") => mutexes[HASH_MUTEX] # t

\* C36: once the running flag is cleared the timer thread starts no further
\* snapshot write, and in every program the timer thread is stopped by its
\* test of the flag, never by pthread_cancel.
C36_TimerStopsCooperatively == ~hist.late_save /\ ~hist.cancelled

StopLines == {"[STOP] Monitor terminated gracefully", "[STOP] Program terminating"}

\* C40: when the process has exited through cleanup_and_exit, the final
\* [STOP] line is in the log file.
C40_StopLineLogged ==
    pc = "exited" => \E l \in LinesOnDisk : l.msg \in StopLines

(***************************************************************************)
(* Registrations that fail                                                 *)
(***************************************************************************)
RefusedTags == {"[ERROR] Failed to add watch",
                "[ERROR] Failed to expand watch manager capacity"}

RealDirs == {RootPath} \cup {JoinPath(RootPath, n) : n \in {d \in DirNames : fs_dirs[d] # 0}}

\* C34: the recursive installer does not follow symbolic links: after the
\* installation no registered path leads through the link, and each real
\* directory of the tree has been registered once.
C34_LinksNotFollowed ==
    (last.op = "install" /\ recursive_mode) =>
        /\ \A i \in 1..RegCount : ~HasPrefix(LivePath(i), LinkPath)
        /\ \A i, j \in 1..RegCount : i # j => LivePath(i) # LivePath(j)
        /\ RegCount <= Cardinality(RealDirs)

(***************************************************************************)
(* The monitor's own writes                                                *)
(***************************************************************************)
\* C35: the monitor's own writes do not feed back: once the other
\* processes have stopped changing the tree, the queue runs empty and stays
\* empty, so the dispatcher blocks idle and the log stops growing, also when
\* the log lies in the watched directory.
C35_OwnWritesDieOut == <>[](queue = <<>>)

====
